---- MODULE Spec2Model ----
(***************************************************************************)
(* Verification pipeline of the enhanced verification bot                  *)
(* (src/bot/enhanced_bot.py): the in-memory collections of                 *)
(* AdvancedVerificationBot, the submission handler                         *)
(* process_verification_request, the owner commands that touch the same    *)
(* collections, and the risk evaluator detect_vpn.                         *)
(*                                                                         *)
(* Python dicts are functions whose DOMAIN is the key set, Python lists    *)
(* are sequences.  An IP string is the tuple of its dot-separated numbers, *)
(* a confidence is kept in tenths (0.9 is 9) so that the sums of the code  *)
(* are exact.                                                              *)
(*                                                                         *)
(* Spec follows the collections in memory, one handler at a time.  The     *)
(* data files, and handlers that overlap at the awaits of their saves, are *)
(* followed in SpecStore; cleanup_task in SpecSweep; the role calls from   *)
(* any role set in SpecRoles; ping_administrators in SpecAlert.            *)
(***************************************************************************)
EXTENDS Integers, Sequences, FiniteSets, TLC

VARIABLES
    verification_data,  \* self.verification_data : user id -> record
    blacklist,          \* self.blacklist : list of user ids
    failed_attempts,    \* self.failed_attempts : user id -> count
    user_profiles,      \* self.user_profiles : user id -> profile
    config,             \* self.config (the keys the pipeline reads)
    members,            \* ids guild.get_member finds
    roles,              \* platform side: roles held by each member
    pc,                 \* position of the submission handler
    sub,                \* user_data of the submission being handled
    outcome,            \* terminal outcome of the submission being handled
    is_blacklisted,     \* value returned by increment_failed_attempts
    is_vpn,             \* value returned by detect_vpn in the handler
    alert,              \* ping_administrators call made by the handler
    reply,              \* embed passed to message.reply by the handler
    actuation,          \* how the role calls of the handler ended
    eval_args,          \* arguments of a direct detect_vpn call
    eval_result,        \* its result
    ip_bans,            \* self.ip_bans : ip -> ban record
    guild_invites,      \* self.guild_invites : the guild's stored use counts
    invite_data,        \* self.invite_data : user id -> attribution
    cmd,                \* the ipban / ipunban command being answered
    join,               \* the member-join event being answered
    files,              \* the data files on disk, by name
    tasks,              \* the event handlers in flight, each with its position
    now,                \* datetime.now(), in days
    updated_at,         \* the day each failed-attempt counter was last written
    last_cleanup,       \* the day of cleanup_task's last run, <<>> before it
    ping_args,          \* arguments of a direct ping_administrators call
    ping_field          \* the alert field it added to the embed

vars == <<verification_data, blacklist, failed_attempts, user_profiles,
          config, members, roles, pc, sub, outcome, is_blacklisted, is_vpn,
          alert, reply, actuation, eval_args, eval_result,
          ip_bans, guild_invites, invite_data, cmd, join,
          files, tasks, now, updated_at, last_cleanup, ping_args,
          ping_field>>

store == <<verification_data, blacklist, failed_attempts, user_profiles>>
handler == <<pc, sub, outcome, is_blacklisted, is_vpn, alert, reply,
             actuation>>
evalv == <<eval_args, eval_result>>
registry == <<ip_bans, guild_invites, invite_data>>
events == <<cmd, join>>
persistv == <<files, tasks>>
sweepv == <<now, updated_at, last_cleanup>>
pingv == <<ping_args, ping_field>>

----------------------------------------------------------------------------
(* Bounds of the model *)

MaxFailedCount == 3      \* failed submissions counted per user
MaxBlacklistLen == 2     \* entries the blacklist list may hold
MaxInviteUses == 1       \* uses the platform reports for an invite code
MaxStoreFailures == 1    \* failures counted for the overlapping submitter
MaxDay == 2              \* days the clock of the cleanup model runs
RetentionDays == 1       \* config data_retention_days, in days of the model
MaxTargets == 16         \* members a guild holds in an alert call

(* Program constants *)

DefaultMaxFailedAttempts == 3
PrivateConfidence == 9
WebrtcWeight == 3
TimezoneWeight == 2
MentionLimit == 15       \* a longer list of mentions is not sent
MaxMentions == 10        \* mentions[:10]
\* mutant: the cut-off written as the private-range confidence
VpnThreshold_mistyped == PrivateConfidence
VpnThreshold == 5

Users == {"u1", "u2"}
Hwids == {"hw1", "hw2"}
IpPrivate == <<10, 0, 0, 5>>
IpPublic == <<8, 8, 8, 8>>
IpMalformed == <<999, 1, 1, 1>>
IpOutOfRange == <<8, 8, 8, 999>>
SubmittedIps == {IpPrivate, IpPublic}
Roles == {"verified", "unverified", "mute", "autorole"}
Signals == {"webrtc_detected", "timezone_mismatch"}
Codes == {"a", "b"}
Reasons == {"abuse", "spam"}
Actors == {"admin1"}
\* what guild.invites() returns: the invites in the platform's order, each
\* code once; or the call raises (ok = FALSE)
InviteEntries == [code : Codes, uses : 0..MaxInviteUses]
Listings ==
    UNION { { l \in [1..k -> InviteEntries] :
                \A i, j \in 1..k : i # j => l[i].code # l[j].code } :
            k \in 0..Cardinality(Codes) }
InvitesRaised == [ok |-> FALSE, invites |-> <<>>]
InviteResponses ==
    {InvitesRaised} \cup { [ok |-> TRUE, invites |-> l] : l \in Listings }
\* the answers of the second call explored: the same listing again, the
\* call raising, and a listing from which the invites have gone
SecondResponses(current) ==
    {current, InvitesRaised, [ok |-> TRUE, invites |-> <<>>]}

EvalIps ==
    { IpPrivate, IpPublic, IpMalformed, <<8, 8, 8, 9>>, <<1, 2, 3>>,
      <<0, 0, 0, 1>>, <<127, 0, 0, 1>>, <<169, 254, 1, 1>>,
      <<172, 16, 0, 1>>, <<172, 31, 0, 1>>, <<172, 32, 0, 1>>,
      <<192, 0, 0, 1>>, <<192, 0, 0, 9>>, <<192, 0, 0, 170>>,
      <<192, 0, 2, 1>>, <<192, 168, 1, 1>>, <<198, 18, 0, 1>>,
      <<198, 51, 100, 1>>, <<203, 0, 113, 1>>, <<100, 64, 0, 1>>,
      <<240, 0, 0, 1>>, <<255, 255, 255, 255>>, <<1, 1, 1, 256>>,
      <<9, 255, 255, 255>>, <<11, 0, 0, 0>>, <<172, 15, 255, 255>>,
      <<192, 0, 0, 8>>, <<192, 169, 0, 1>>, <<198, 20, 0, 1>>,
      <<239, 255, 255, 255>>, <<1, 2, 3, 4, 5>> }

----------------------------------------------------------------------------
(* Helpers for dicts and lists *)

Range(s) == { s[i] : i \in 1..Len(s) }

Get(d, k, default) == IF k \in DOMAIN d THEN d[k] ELSE default

Put(d, k, v) == [x \in DOMAIN d \cup {k} |-> IF x = k THEN v ELSE d[x]]

Del(d, k) == [x \in DOMAIN d \ {k} |-> d[x]]

EmptyDict == [x \in {} |-> 0]

Count(s, x) == Cardinality({ i \in 1..Len(s) : s[i] = x })

\* list.remove(x): drops the first occurrence only
ListRemove(s, x) ==
    LET i == CHOOSE j \in 1..Len(s) :
                 s[j] = x /\ \A k \in 1..(j - 1) : s[k] # x
    IN  SubSeq(s, 1, i - 1) \o SubSeq(s, i + 1, Len(s))

----------------------------------------------------------------------------
(* RiskEvaluator *)

\* mutant: four dot-separated numbers are taken for an address
is_valid_ip_no_range(ip) == Len(ip) = 4

\* ipaddress.ip_address(ip) does not raise ValueError
is_valid_ip(ip) == Len(ip) = 4 /\ \A i \in 1..4 : ip[i] \in 0..255

\* ipaddress.IPv4Address.is_private
is_private(ip) ==
    \/ ip[1] = 0
    \/ ip[1] = 10
    \/ ip[1] = 127
    \/ ip[1] = 169 /\ ip[2] = 254
    \/ ip[1] = 172 /\ ip[2] \in 16..31
    \/ ip[1] = 192 /\ ip[2] = 0 /\ ip[3] = 0 /\ ip[4] \in 0..7
    \/ ip[1] = 192 /\ ip[2] = 0 /\ ip[3] = 0 /\ ip[4] \in 170..171
    \/ ip[1] = 192 /\ ip[2] = 0 /\ ip[3] = 2
    \/ ip[1] = 192 /\ ip[2] = 168
    \/ ip[1] = 198 /\ ip[2] \in 18..19
    \/ ip[1] = 198 /\ ip[2] = 51 /\ ip[3] = 100
    \/ ip[1] = 203 /\ ip[2] = 0 /\ ip[3] = 113
    \/ ip[1] >= 240

NoDetection ==
    [is_vpn |-> FALSE, confidence |-> 0, reasons |-> <<>>, method |-> "none"]

\* detect_vpn(ip, additional_data); additional_data is the set of its
\* truthy keys, the empty set standing for None
detect_vpn(ip, additional_data) ==
    IF ~is_valid_ip(ip)
    THEN [is_vpn |-> FALSE, confidence |-> 0,
          reasons |-> <<"Invalid IP format">>, method |-> "basic"]
    ELSE
      LET c0 == IF is_private(ip) THEN PrivateConfidence ELSE 0
          r0 == IF is_private(ip)
                THEN <<"Private IP range detected">> ELSE <<>>
          c1 == IF "webrtc_detected" \in additional_data
                THEN c0 + WebrtcWeight ELSE c0
          r1 == IF "webrtc_detected" \in additional_data
                THEN Append(r0, "WebRTC anomaly detected") ELSE r0
          c2 == IF "timezone_mismatch" \in additional_data
                THEN c1 + TimezoneWeight ELSE c1
          r2 == IF "timezone_mismatch" \in additional_data
                THEN Append(r1, "Timezone/IP location mismatch") ELSE r1
      IN  [is_vpn |-> c2 > VpnThreshold, confidence |-> c2,
           reasons |-> r2, method |-> "basic"]

----------------------------------------------------------------------------
(* DeduplicationIndex, AttemptTracker, profiles *)

\* mutant: the wrong field of the stored record is compared
check_hwid_duplicate_wrong_field(hwid, user_id) ==
    { uid \in DOMAIN verification_data :
          uid # user_id /\ verification_data[uid].user_id = hwid }

\* mutant: the submitting user is not left out
check_hwid_duplicate_with_self(hwid, user_id) ==
    { uid \in DOMAIN verification_data :
          verification_data[uid].hwid = hwid }

check_hwid_duplicate(hwid, user_id) ==
    { uid \in DOMAIN verification_data :
          uid # user_id /\ verification_data[uid].hwid = hwid }

\* mutant: the threshold has to be exceeded, not reached
increment_failed_attempts_gt(user_id) ==
    LET n == Get(failed_attempts, user_id, 0) + 1
        hit == n > config.max_failed_attempts
               /\ config.auto_blacklist_enabled
    IN  [failed_attempts |-> Put(failed_attempts, user_id, n),
         blacklist |-> IF hit THEN Append(blacklist, user_id) ELSE blacklist,
         returned |-> hit]

\* increment_failed_attempts(user_id): the new counter map, the new
\* blacklist and the returned flag
increment_failed_attempts(user_id) ==
    LET n == Get(failed_attempts, user_id, 0) + 1
        hit == n >= config.max_failed_attempts
               /\ config.auto_blacklist_enabled
    IN  [failed_attempts |-> Put(failed_attempts, user_id, n),
         blacklist |-> IF hit THEN Append(blacklist, user_id) ELSE blacklist,
         returned |-> hit]

\* create_user_profile(user_id, guild_id, data) for the one guild of the
\* model: the profile's guild entry takes the record.  The profile's
\* verification_history and total_verifications, which grow by one per
\* call and are read nowhere in the pipeline, are not kept.
create_user_profile(user_id, data) ==
    Put(user_profiles, user_id, [verification_data |-> data])

----------------------------------------------------------------------------
(* IP bans: is_ip_banned, ban_ip, unban_ip, get_users_by_ip *)

\* mutant: the table is searched with a truncated key
is_ip_banned_wrong_key(ip) == Tail(ip) \in DOMAIN ip_bans

is_ip_banned(ip) == ip \in DOMAIN ip_bans

\* ban_ip: the new ban table and the returned value
ban_ip(ip, reason, banned_by) ==
    IF ~is_valid_ip(ip)
    THEN [ip_bans |-> ip_bans, returned |-> FALSE]
    ELSE [ip_bans |-> Put(ip_bans, ip,
                          [reason |-> reason, banned_by |-> banned_by,
                           active |-> TRUE, unbanned_at |-> FALSE]),
          returned |-> TRUE]

\* unban_ip: the record stays, marked inactive
unban_ip(ip) ==
    IF ip \in DOMAIN ip_bans
    THEN [ip_bans |-> [ip_bans EXCEPT ![ip].active = FALSE,
                                      ![ip].unbanned_at = TRUE],
          returned |-> TRUE]
    ELSE [ip_bans |-> ip_bans, returned |-> FALSE]

get_users_by_ip(ip) ==
    { user_id \in DOMAIN verification_data :
          verification_data[user_id].ip_raw = ip }

----------------------------------------------------------------------------
(* Invite tracking: track_invite_usage.  current and again are the answers *)
(* of the two guild.invites() calls the method makes.                      *)

NoInviter == "none"

\* invite.inviter of a listed code ("Unknown" when the platform has none)
inviter_of(code) == IF code = "a" THEN "owner" ELSE "Unknown"

HasCode(invites, code) == \E i \in 1..Len(invites) : invites[i].code = code

UsesOf(invites, code) ==
    invites[CHOOSE i \in 1..Len(invites) : invites[i].code = code].uses

\* the positions of current whose code is in the old use counts with fewer
\* uses
Increased(old_invites, current_invites) ==
    { i \in 1..Len(current_invites) :
          /\ HasCode(old_invites, current_invites[i].code)
          /\ current_invites[i].uses
                 > UsesOf(old_invites, current_invites[i].code) }

\* used_invite of the loop over current_invites: the position of the first
\* hit, 0 for None
used_invite(old_known, old_invites, current_invites) ==
    LET hits == IF old_known THEN Increased(old_invites, current_invites)
                ELSE {}
    IN  IF hits = {} THEN 0
        ELSE CHOOSE i \in hits : \A j \in hits : i <= j

\* the new stored use counts, the new attributions and the returned inviter
track_invite_usage(member, current, again) ==
    IF ~config.invite_tracking_enabled \/ ~current.ok
    THEN [guild_invites |-> guild_invites, invite_data |-> invite_data,
          inviter |-> NoInviter]
    ELSE LET used == used_invite(guild_invites.known, guild_invites.invites,
                                 current.invites)
             stored == [known |-> TRUE, invites |-> current.invites]
         IN  IF used = 0 \/ ~again.ok
                \/ ~HasCode(again.invites, current.invites[used].code)
             THEN [guild_invites |-> stored, invite_data |-> invite_data,
                   inviter |-> NoInviter]
             ELSE LET e == current.invites[used]
                  IN  [guild_invites |-> stored,
                       invite_data |->
                           Put(invite_data, member,
                               [invited_by |-> inviter_of(e.code),
                                invite_code |-> e.code,
                                uses_at_join |-> e.uses]),
                       inviter |-> IF inviter_of(e.code) = "Unknown"
                                   THEN NoInviter ELSE inviter_of(e.code)]

----------------------------------------------------------------------------
(* ModerationActuator: the role calls of the handlers.  forbidden is the   *)
(* set of roles whose change the platform refuses (discord.Forbidden);     *)
(* the first refused call ends the sequence of calls.                      *)

\* the mute hold of the duplicate and risk branches: the role set afterwards
\* and how the call ended ("none" when no call is made)
apply_mute(rs, forbidden) ==
    IF ~config.mute_role THEN [roles |-> rs, actuation |-> "none"]
    ELSE IF "mute" \in forbidden THEN [roles |-> rs, actuation |-> "failed"]
    ELSE [roles |-> rs \cup {"mute"}, actuation |-> "applied"]

\* mutant: the auto-role is added only to a member that already held the
\* verified role before the call
apply_verified_autorole_after_verified(rs, forbidden) ==
    LET do1 == config.verification_role
        do2 == config.unverified_role /\ "unverified" \in rs
        do3 == config.autorole_enabled /\ config.autorole_role
               /\ "verified" \in rs
        rs1 == IF do1 THEN rs \cup {"verified"} ELSE rs
        rs2 == IF do2 THEN rs1 \ {"unverified"} ELSE rs1
        rs3 == IF do3 THEN rs2 \cup {"autorole"} ELSE rs2
    IN  IF do1 /\ "verified" \in forbidden
        THEN [roles |-> rs, actuation |-> "failed"]
        ELSE IF do2 /\ "unverified" \in forbidden
        THEN [roles |-> rs1, actuation |-> "failed"]
        ELSE IF do3 /\ "autorole" \in forbidden
        THEN [roles |-> rs2, actuation |-> "failed"]
        ELSE [roles |-> rs3,
              actuation |-> IF do1 \/ do2 \/ do3 THEN "applied" ELSE "none"]

\* the role calls of the success branch
apply_verified(rs, forbidden) ==
    LET do1 == config.verification_role
        do2 == config.unverified_role /\ "unverified" \in rs
        do3 == config.autorole_enabled /\ config.autorole_role
        rs1 == IF do1 THEN rs \cup {"verified"} ELSE rs
        rs2 == IF do2 THEN rs1 \ {"unverified"} ELSE rs1
        rs3 == IF do3 THEN rs2 \cup {"autorole"} ELSE rs2
    IN  IF do1 /\ "verified" \in forbidden
        THEN [roles |-> rs, actuation |-> "failed"]
        ELSE IF do2 /\ "unverified" \in forbidden
        THEN [roles |-> rs1, actuation |-> "failed"]
        ELSE IF do3 /\ "autorole" \in forbidden
        THEN [roles |-> rs2, actuation |-> "failed"]
        ELSE [roles |-> rs3,
              actuation |-> IF do1 \/ do2 \/ do3 THEN "applied" ELSE "none"]

\* the role calls of unverify_command; any exception is logged and dropped
apply_unverified(rs, forbidden) ==
    LET do1 == config.verification_role /\ "verified" \in rs
        do2 == config.autorole_role /\ "autorole" \in rs
        do3 == config.unverified_role
        rs1 == IF do1 THEN rs \ {"verified"} ELSE rs
        rs2 == IF do2 THEN rs1 \ {"autorole"} ELSE rs1
        rs3 == IF do3 THEN rs2 \cup {"unverified"} ELSE rs2
    IN  IF do1 /\ "verified" \in forbidden THEN rs
        ELSE IF do2 /\ "autorole" \in forbidden THEN rs1
        ELSE IF do3 /\ "unverified" \in forbidden THEN rs2
        ELSE rs3

----------------------------------------------------------------------------
(* PersistenceStore: the data files.  A file is missing, empty (created or *)
(* truncated by open(path, 'w') and not written yet), written (it holds a  *)
(* complete JSON text) or corrupt (two texts written over each other).     *)
(* handles is the set of tasks that hold the file open for writing:        *)
(* os.rename moves the file together with its open handles, and a write    *)
(* lands in the file the handle was opened on, whatever its name is then.  *)
(* The whitelist, which no operation of the model writes, is left out of   *)
(* the data file.                                                          *)

DATA_FILE == "verification_data.json"
USER_PROFILES_FILE == "user_profiles.json"
\* the most recent f"{DATA_FILE}.backup.{timestamp}"
backup_file == "verification_data.json.backup"
FileNames == {DATA_FILE, USER_PROFILES_FILE, backup_file}

\* the handler of the submission followed through its success path, and
\* the handler of another, failing submission that overlaps it
Tasks == {"submission", "overlapping"}

NoText == <<>>
NoFile == [state |-> "missing", text |-> NoText, handles |-> {}]
NoFiles == [f \in FileNames |-> NoFile]

\* json.dumps of a dict with string keys: the members of the JSON object
json_dumps(d) == { <<k, d[k]>> : k \in DOMAIN d }

\* json.loads of a JSON object: the dict of its members
json_loads(text) ==
    [k \in { m[1] : m \in text } |-> (CHOOSE m \in text : m[1] = k)[2]]

\* the text save_data writes for the given collections
data_text(vd, bl, fa) ==
    [verification_data |-> json_dumps(vd),
     blacklist |-> bl,
     failed_attempts |-> json_dumps(fa)]

\* os.rename(src, dst) where dst is a backup: the text of a backup, which
\* nothing reads, is not kept
os_rename(fs, src, dst) ==
    [fs EXCEPT ![dst] = [fs[src] EXCEPT !.text = NoText], ![src] = NoFile]

\* aiofiles.open(path, 'w') by task t: the file is created or truncated
open_w(fs, path, t) ==
    [fs EXCEPT ![path] = [state |-> "empty", text |-> NoText,
                          handles |-> @.handles \cup {t}]]

\* how the text of task t can land in the file its handle is open on: a
\* text written over a different text from another handle may leave the
\* tail of the longer one behind
Landings(fs, t, text) ==
    IF \A f \in FileNames :
          t \in fs[f].handles =>
             \/ fs[f].state = "empty"
             \/ fs[f].state = "written" /\ fs[f].text = text
    THEN {"written"}
    ELSE {"written", "corrupt"}

\* f.write(text) and the close of the handle of task t
write_close(fs, t, text, landed) ==
    [f \in FileNames |->
        IF t \in fs[f].handles
        THEN [state |-> landed,
              text |-> IF landed = "written" /\ f # backup_file
                       THEN text ELSE NoText,
              handles |-> fs[f].handles \ {t}]
        ELSE fs[f]]

\* the handle of task t is closed without a write
close(fs, t) ==
    [f \in FileNames |-> [fs[f] EXCEPT !.handles = @ \ {t}]]

\* save_data up to its first await: the data file, when there is one, is
\* renamed to the backup
save_data_begin(fs) ==
    IF fs[DATA_FILE].state # "missing"
    THEN os_rename(fs, DATA_FILE, backup_file)
    ELSE fs

\* save_data run from its first line to its last with nothing in between
save_data_whole(fs, text) ==
    [save_data_begin(fs) EXCEPT
        ![DATA_FILE] = [state |-> "written", text |-> text, handles |-> {}]]

\* load_data: the collections after the call, mem being the collections
\* before it.  A missing file and a file json.loads cannot parse both
\* leave the collections as they are.
load_data(fs, mem) ==
    IF fs[DATA_FILE].state = "written"
    THEN [verification_data |->
              json_loads(fs[DATA_FILE].text.verification_data),
          blacklist |-> fs[DATA_FILE].text.blacklist,
          failed_attempts |->
              json_loads(fs[DATA_FILE].text.failed_attempts)]
    ELSE mem

\* whether load_data ends in its except branch
load_raises(fs) == fs[DATA_FILE].state \in {"empty", "corrupt"}

\* create_backup_files, called by load_data after an exception: each
\* missing file is created with its empty default
create_backup_files(fs) ==
    [f \in FileNames |->
        IF f = USER_PROFILES_FILE /\ fs[f].state = "missing"
        THEN [state |-> "written", text |-> json_dumps(EmptyDict),
              handles |-> {}]
        ELSE fs[f]]

\* a task: the handler it runs, its user, the await it is suspended at,
\* the text it is about to write, where its save_data returns to, how it
\* ended, and (a history value, for the submission) the state it started in
NoStart == <<>>
NoTask == [op |-> "none", user |-> "none", pc |-> "idle", buf |-> NoText,
           after |-> "none", exit |-> "none", started |-> NoStart]
NoTasks == [t \in Tasks |-> NoTask]

----------------------------------------------------------------------------
(* AlertDispatcher: ping_administrators.  guild is guild.members in the    *)
(* platform's order; enabled is the configuration switch of the tier       *)
(* (admin_ping_enabled, staff_role, moderator_ping_enabled).               *)

AlertTiers == {"admin", "staff", "mod"}

\* a member of guild.members is the tuple
\* <<id, bot, administrator, staff, kick_members, ban_members>>
\* whether the tier's loop mentions the member
targeted(ping_type, member) ==
    LET bot == member[2]
        administrator == member[3]
        staff == member[4]
        kick_members == member[5]
        ban_members == member[6]
    IN  /\ ~bot
        /\ CASE ping_type = "admin" -> administrator
             [] ping_type = "staff" -> staff
             [] ping_type = "mod" -> kick_members \/ ban_members
             [] OTHER -> FALSE

RECURSIVE mentions_of(_, _)
mentions_of(ping_type, guild) ==
    IF guild = <<>> THEN <<>>
    ELSE IF targeted(ping_type, Head(guild))
    THEN <<Head(guild)[1]>> \o mentions_of(ping_type, Tail(guild))
    ELSE mentions_of(ping_type, Tail(guild))

Min(a, b) == IF a <= b THEN a ELSE b

NoField == [added |-> FALSE, mentions |-> <<>>]

\* mutant: the mentions are not cut
ping_administrators_uncut(ping_type, enabled, guild) ==
    LET mentions == IF ping_type \in AlertTiers /\ enabled
                    THEN mentions_of(ping_type, guild) ELSE <<>>
    IN  IF mentions # <<>> /\ Len(mentions) <= MentionLimit
        THEN [added |-> TRUE, mentions |-> mentions]
        ELSE NoField

\* the alert field ping_administrators adds to the embed
ping_administrators(ping_type, enabled, guild) ==
    LET mentions == IF ping_type \in AlertTiers /\ enabled
                    THEN mentions_of(ping_type, guild) ELSE <<>>
    IN  IF mentions # <<>> /\ Len(mentions) <= MentionLimit
        THEN [added |-> TRUE,
              mentions |-> SubSeq(mentions, 1,
                                  Min(MaxMentions, Len(mentions)))]
        ELSE NoField

NoPing == [enabled |-> FALSE, guild |-> <<>>, ping_type |-> "none"]

----------------------------------------------------------------------------
(* Initial state: AdvancedVerificationBot.__init__ with no data files *)

NoSub == [discord_id |-> "none", hwid |-> "none", ip |-> <<>>]
NoAlert == [audience |-> "none", reason |-> "none"]
NoReply == [embed |-> "none", dm |-> FALSE]
NoEval == [ip |-> <<>>, additional_data |-> {}]
NoCmd == [op |-> "none", ip |-> <<>>, returned |-> FALSE,
          response |-> "none"]
NoJoin == [member |-> "none", outcome |-> "none", ban |-> "none",
           inviter |-> NoInviter, invites |-> InvitesRaised,
           again |-> InvitesRaised]
NoInvites == [known |-> FALSE, invites |-> <<>>]

\* the configurations explored: the defaults of __init__ with the verified
\* and mute roles set, the same with a lower threshold, and the defaults
\* (no role set) with auto-blacklist switched off
DefaultConfig ==
    [max_failed_attempts |-> DefaultMaxFailedAttempts,
     auto_blacklist_enabled |-> TRUE,
     verification_role |-> FALSE,
     unverified_role |-> FALSE,
     mute_role |-> FALSE,
     autorole_role |-> FALSE,
     autorole_enabled |-> FALSE,
     auto_unverified_enabled |-> TRUE,
     invite_tracking_enabled |-> FALSE,
     risk_threshold |-> {}]

RolesConfig ==
    [DefaultConfig EXCEPT !.verification_role = TRUE, !.mute_role = TRUE]

Configs ==
    { RolesConfig,
      [RolesConfig EXCEPT !.max_failed_attempts = DefaultMaxFailedAttempts - 1],
      [DefaultConfig EXCEPT !.auto_blacklist_enabled = FALSE] }

HandlerIdle ==
    /\ pc = "Idle"
    /\ sub = NoSub
    /\ outcome = "None"
    /\ is_blacklisted = FALSE
    /\ is_vpn = NoDetection
    /\ alert = NoAlert
    /\ reply = NoReply
    /\ actuation = "none"

\* everything but the configuration
InitData ==
    /\ verification_data = EmptyDict
    /\ blacklist = <<>>
    /\ failed_attempts = EmptyDict
    /\ user_profiles = EmptyDict
    /\ members = {}
    /\ roles = [u \in Users |-> {}]
    /\ HandlerIdle
    /\ eval_args = NoEval
    /\ eval_result = NoDetection
    /\ ip_bans = EmptyDict
    /\ guild_invites = NoInvites
    /\ invite_data = EmptyDict
    /\ cmd = NoCmd
    /\ join = NoJoin
    /\ files = NoFiles
    /\ tasks = NoTasks
    /\ now = 0
    /\ updated_at = EmptyDict
    /\ last_cleanup = <<>>
    /\ ping_args = NoPing
    /\ ping_field = NoField

Init ==
    /\ config \in Configs
    /\ InitData

----------------------------------------------------------------------------
(* process_verification_request: which branch a submission takes.  The     *)
(* tests are made in the order of the code, each behind the earlier ones.  *)

NotAMember(s) == s.discord_id \notin members

Blacklisted(s) ==
    /\ ~NotAMember(s)
    /\ s.discord_id \in Range(blacklist)

DuplicateHwid(s) ==
    /\ ~NotAMember(s)
    /\ s.discord_id \notin Range(blacklist)
    /\ check_hwid_duplicate(s.hwid, s.discord_id) # {}

RiskFlagged(s) ==
    /\ ~NotAMember(s)
    /\ s.discord_id \notin Range(blacklist)
    /\ check_hwid_duplicate(s.hwid, s.discord_id) = {}
    /\ detect_vpn(s.ip, {}).is_vpn

\* mutant: the blacklist test is left out on the way to Commit
Accepted_no_blacklist(s) ==
    /\ ~NotAMember(s)
    /\ check_hwid_duplicate(s.hwid, s.discord_id) = {}
    /\ ~detect_vpn(s.ip, {}).is_vpn

Accepted(s) ==
    /\ ~NotAMember(s)
    /\ s.discord_id \notin Range(blacklist)
    /\ check_hwid_duplicate(s.hwid, s.discord_id) = {}
    /\ ~detect_vpn(s.ip, {}).is_vpn

\* the submission keeps the counters and lists within the bounds
WithinBounds(s) ==
    /\ NotAMember(s) =>
          /\ Get(failed_attempts, s.discord_id, 0) < MaxFailedCount
          /\ Len(blacklist) < MaxBlacklistLen
    /\ RiskFlagged(s) => Len(blacklist) < MaxBlacklistLen

\* the ping_administrators calls of the handler: audience and reason
auto_blacklist_alert ==
    [audience |-> "admin",
     reason |-> "Auto-blacklist due to failed verification attempts"]

\* mutant: the duplicate alert goes to the admin audience
duplicate_alert_admin ==
    [audience |-> "admin",
     reason |-> "Duplicate HWID detected - possible alt account"]

duplicate_alert ==
    [audience |-> "mod",
     reason |-> "Duplicate HWID detected - possible alt account"]

risk_alert ==
    [audience |-> "admin", reason |-> "VPN/Proxy detected - user blacklisted"]

\* on_message hands the submission to process_verification_request
Receive(u, h, ip) ==
    /\ pc = "Idle"
    /\ WithinBounds([discord_id |-> u, hwid |-> h, ip |-> ip])
    /\ sub' = [discord_id |-> u, hwid |-> h, ip |-> ip]

\* mutant: the admins are pinged whatever increment_failed_attempts returned
RejectNotAMember_always_alerts(u, h, ip) ==
    /\ Receive(u, h, ip)
    /\ NotAMember(sub')
    /\ LET r == increment_failed_attempts(sub'.discord_id)
       IN  /\ failed_attempts' = r.failed_attempts
           /\ blacklist' = r.blacklist
           /\ is_blacklisted' = r.returned
    /\ alert' = auto_blacklist_alert
    /\ reply' = [embed |-> "Verification Failed", dm |-> FALSE]
    /\ outcome' = "Rejected:NotAMember"
    /\ pc' = "Finished"
    /\ UNCHANGED <<verification_data, user_profiles, config, members, roles,
                   is_vpn, actuation, evalv, registry, events,
                   persistv, sweepv, pingv>>

\* the member is not in the guild
RejectNotAMember(u, h, ip) ==
    /\ Receive(u, h, ip)
    /\ NotAMember(sub')
    /\ LET r == increment_failed_attempts(sub'.discord_id)
       IN  /\ failed_attempts' = r.failed_attempts
           /\ blacklist' = r.blacklist
           /\ is_blacklisted' = r.returned
           /\ alert' = IF r.returned THEN auto_blacklist_alert ELSE alert
    /\ reply' = [embed |-> "Verification Failed", dm |-> FALSE]
    /\ outcome' = "Rejected:NotAMember"
    /\ pc' = "Finished"
    /\ UNCHANGED <<verification_data, user_profiles, config, members, roles,
                   is_vpn, actuation, evalv, registry, events,
                   persistv, sweepv, pingv>>

\* mutant: the rejection is counted as a failed attempt
RejectBlacklisted_counts(u, h, ip) ==
    /\ Receive(u, h, ip)
    /\ Blacklisted(sub')
    /\ failed_attempts' =
           Put(failed_attempts, u, Get(failed_attempts, u, 0) + 1)
    /\ reply' = [embed |-> "User Blacklisted", dm |-> FALSE]
    /\ outcome' = "Rejected:Blacklisted"
    /\ pc' = "Finished"
    /\ UNCHANGED <<verification_data, blacklist, user_profiles, config,
                   members, roles, is_blacklisted, is_vpn, alert, actuation,
                   evalv, registry, events, persistv, sweepv, pingv>>

\* the member is blacklisted
RejectBlacklisted(u, h, ip) ==
    /\ Receive(u, h, ip)
    /\ Blacklisted(sub')
    /\ reply' = [embed |-> "User Blacklisted", dm |-> FALSE]
    /\ outcome' = "Rejected:Blacklisted"
    /\ pc' = "Finished"
    /\ UNCHANGED <<store, config, members, roles, is_blacklisted,
                   is_vpn, alert, actuation, evalv, registry, events,
                   persistv, sweepv, pingv>>

\* mutant: the address is looked at before the hwid, so that a duplicate
\* from a flagged address is handled as a risk
FlagDuplicateHwid_risk_first(u, h, ip) ==
    /\ Receive(u, h, ip)
    /\ DuplicateHwid(sub')
    /\ LET risk == detect_vpn(sub'.ip, {}).is_vpn
       IN  /\ blacklist' = IF risk THEN Append(blacklist, sub'.discord_id)
                           ELSE blacklist
           /\ alert' = IF risk THEN risk_alert ELSE duplicate_alert
           /\ reply' = [embed |-> IF risk THEN "VPN/Proxy Detected"
                                  ELSE "Duplicate HWID Detected",
                        dm |-> FALSE]
           /\ outcome' = IF risk THEN "Flagged:Risk"
                         ELSE "Flagged:DuplicateHwid"
    /\ \E forbidden \in SUBSET {"mute"} :
          LET r == apply_mute(roles[u], forbidden)
          IN  /\ roles' = [roles EXCEPT ![u] = r.roles]
              /\ actuation' = r.actuation
    /\ pc' = "Finished"
    /\ UNCHANGED <<verification_data, failed_attempts, user_profiles, config,
                   members, is_blacklisted, is_vpn, evalv, registry, events,
                   persistv, sweepv, pingv>>

\* another user already holds the hwid
FlagDuplicateHwid(u, h, ip) ==
    /\ Receive(u, h, ip)
    /\ DuplicateHwid(sub')
    /\ \E forbidden \in SUBSET {"mute"} :
          LET r == apply_mute(roles[u], forbidden)
          IN  /\ roles' = [roles EXCEPT ![u] = r.roles]
              /\ actuation' = r.actuation
    /\ alert' = duplicate_alert
    /\ reply' = [embed |-> "Duplicate HWID Detected", dm |-> FALSE]
    /\ outcome' = "Flagged:DuplicateHwid"
    /\ pc' = "Finished"
    /\ UNCHANGED <<store, config, members, is_blacklisted, is_vpn,
                   evalv, registry, events,
                   persistv, sweepv, pingv>>

\* mutant: the flagged user is muted and reported but not blacklisted
FlagRisk_no_blacklist(u, h, ip) ==
    /\ Receive(u, h, ip)
    /\ RiskFlagged(sub')
    /\ is_vpn' = detect_vpn(sub'.ip, {})
    /\ \E forbidden \in SUBSET {"mute"} :
          LET r == apply_mute(roles[u], forbidden)
          IN  /\ roles' = [roles EXCEPT ![u] = r.roles]
              /\ actuation' = r.actuation
    /\ alert' = risk_alert
    /\ reply' = [embed |-> "VPN/Proxy Detected", dm |-> FALSE]
    /\ outcome' = "Flagged:Risk"
    /\ pc' = "Finished"
    /\ UNCHANGED <<store, config, members, is_blacklisted, evalv, registry, events,
                   persistv, sweepv, pingv>>

\* detect_vpn flags the address
FlagRisk(u, h, ip) ==
    /\ Receive(u, h, ip)
    /\ RiskFlagged(sub')
    /\ is_vpn' = detect_vpn(sub'.ip, {})
    /\ blacklist' = Append(blacklist, sub'.discord_id)
    /\ \E forbidden \in SUBSET {"mute"} :
          LET r == apply_mute(roles[u], forbidden)
          IN  /\ roles' = [roles EXCEPT ![u] = r.roles]
              /\ actuation' = r.actuation
    /\ alert' = risk_alert
    /\ reply' = [embed |-> "VPN/Proxy Detected", dm |-> FALSE]
    /\ outcome' = "Flagged:Risk"
    /\ pc' = "Finished"
    /\ UNCHANGED <<verification_data, failed_attempts, user_profiles, config,
                   members, is_blacklisted, evalv, registry, events,
                   persistv, sweepv, pingv>>

\* Commit: the record and the profile are written and saved
Commit(u, h, ip) ==
    /\ Receive(u, h, ip)
    /\ Accepted(sub')
    /\ is_vpn' = detect_vpn(sub'.ip, {})
    /\ LET data == [hwid |-> sub'.hwid, ip_raw |-> sub'.ip,
                    user_id |-> sub'.discord_id]
       IN  /\ verification_data' =
                  Put(verification_data, sub'.discord_id, data)
           /\ user_profiles' = create_user_profile(sub'.discord_id, data)
    /\ pc' = "ClearAttempts"
    /\ UNCHANGED <<blacklist, failed_attempts, config, members, roles,
                   outcome, is_blacklisted, alert, reply, actuation, evalv, registry, events,
                   persistv, sweepv, pingv>>

\* mutant: the counter survives a successful verification
ClearAttempts_keeps_counter ==
    /\ pc = "ClearAttempts"
    /\ pc' = "RoleSync"
    /\ UNCHANGED <<store, config, members, roles, sub, outcome,
                   is_blacklisted, is_vpn, alert, reply, actuation, evalv, registry, events,
                   persistv, sweepv, pingv>>

\* the failed-attempt counter is dropped
ClearAttempts ==
    /\ pc = "ClearAttempts"
    /\ failed_attempts' = Del(failed_attempts, sub.discord_id)
    /\ pc' = "RoleSync"
    /\ UNCHANGED <<verification_data, blacklist, user_profiles, config,
                   members, roles, sub, outcome, is_blacklisted, is_vpn,
                   alert, reply, actuation, evalv, registry, events,
                   persistv, sweepv, pingv>>

\* mutant: a refused role call takes the record back
RoleSync_rolls_back ==
    /\ pc = "RoleSync"
    /\ \E forbidden \in SUBSET {"verified"} :
          LET r == apply_verified(roles[sub.discord_id], forbidden)
          IN  /\ roles' = [roles EXCEPT ![sub.discord_id] = r.roles]
              /\ actuation' = r.actuation
              /\ pc' = IF r.actuation = "failed"
                       THEN "NotifyError" ELSE "Notify"
              /\ verification_data' =
                     IF r.actuation = "failed"
                     THEN Del(verification_data, sub.discord_id)
                     ELSE verification_data
    /\ UNCHANGED <<blacklist, failed_attempts, user_profiles, config,
                   members, sub, outcome, is_blacklisted, is_vpn, alert,
                   reply, evalv, registry, events, persistv, sweepv, pingv>>

\* RoleSync and Notify: the role calls, then the reply of the try block
\* or, after discord.Forbidden, the permission-error reply
RoleSync ==
    /\ pc = "RoleSync"
    /\ \E forbidden \in SUBSET {"verified"} :
          LET r == apply_verified(roles[sub.discord_id], forbidden)
          IN  /\ roles' = [roles EXCEPT ![sub.discord_id] = r.roles]
              /\ actuation' = r.actuation
              /\ pc' = IF r.actuation = "failed"
                       THEN "NotifyError" ELSE "Notify"
    /\ UNCHANGED <<store, config, members, sub, outcome, is_blacklisted,
                   is_vpn, alert, reply, evalv, registry, events,
                   persistv, sweepv, pingv>>

\* mutant: nothing is replied after a refused role call
Notify_success_only ==
    /\ pc = "Notify"
    /\ \E dm \in BOOLEAN :
          reply' = [embed |-> "Verification Successful", dm |-> dm]
    /\ outcome' = "Done"
    /\ pc' = "Finished"
    /\ UNCHANGED <<store, config, members, roles, sub, is_blacklisted,
                   is_vpn, alert, actuation, evalv, registry, events,
                   persistv, sweepv, pingv>>

Notify ==
    /\ pc \in {"Notify", "NotifyError"}
    /\ \E dm \in BOOLEAN :
          reply' = IF pc = "Notify"
                   THEN [embed |-> "Verification Successful", dm |-> dm]
                   ELSE [embed |-> "Permission Error", dm |-> FALSE]
    /\ outcome' = "Done"
    /\ pc' = "Finished"
    /\ UNCHANGED <<store, config, members, roles, sub, is_blacklisted,
                   is_vpn, alert, actuation, evalv, registry, events,
                   persistv, sweepv, pingv>>

\* the handler returns
Return ==
    /\ pc = "Finished"
    /\ pc' = "Idle"
    /\ sub' = NoSub
    /\ outcome' = "None"
    /\ is_blacklisted' = FALSE
    /\ is_vpn' = NoDetection
    /\ alert' = NoAlert
    /\ reply' = NoReply
    /\ actuation' = "none"
    /\ cmd' = NoCmd
    /\ join' = NoJoin
    /\ UNCHANGED <<store, config, members, roles, evalv, registry,
                   persistv, sweepv, pingv>>

----------------------------------------------------------------------------
(* Owner commands and membership events, handled between submissions *)

blacklist_add(u) ==
    /\ pc = "Idle"
    /\ u \notin Range(blacklist)
    /\ Len(blacklist) < MaxBlacklistLen
    /\ blacklist' = Append(blacklist, u)
    /\ UNCHANGED <<verification_data, failed_attempts, user_profiles, config,
                   members, roles, handler, evalv, registry, events,
                   persistv, sweepv, pingv>>

\* mutant: the entry is removed and the counter is left behind
remove_from_blacklist_keeps_counter(u) ==
    /\ u \in Range(blacklist)
    /\ blacklist' = ListRemove(blacklist, u)
    /\ failed_attempts' = failed_attempts

remove_from_blacklist(u) ==
    /\ u \in Range(blacklist)
    /\ blacklist' = ListRemove(blacklist, u)
    /\ failed_attempts' = Del(failed_attempts, u)

blacklist_remove(u) ==
    /\ pc = "Idle"
    /\ remove_from_blacklist(u)
    /\ UNCHANGED <<verification_data, user_profiles, config, members, roles,
                   handler, evalv, registry, events,
                   persistv, sweepv, pingv>>

unblacklist_command(u) ==
    /\ pc = "Idle"
    /\ remove_from_blacklist(u)
    /\ UNCHANGED <<verification_data, user_profiles, config, members, roles,
                   handler, evalv, registry, events,
                   persistv, sweepv, pingv>>

blacklist_clear ==
    /\ pc = "Idle"
    /\ blacklist' = <<>>
    /\ failed_attempts' = EmptyDict
    /\ UNCHANGED <<verification_data, user_profiles, config, members, roles,
                   handler, evalv, registry, events,
                   persistv, sweepv, pingv>>

unverify_command(u) ==
    /\ pc = "Idle"
    /\ u \in DOMAIN verification_data
    /\ verification_data' = Del(verification_data, u)
    /\ \E forbidden \in SUBSET {"verified"} :
          roles' = IF u \in members
                   THEN [roles EXCEPT ![u] = apply_unverified(@, forbidden)]
                   ELSE roles
    /\ UNCHANGED <<blacklist, failed_attempts, user_profiles, config,
                   members, handler, evalv, registry, events,
                   persistv, sweepv, pingv>>

\* the ip_raw values the profile of u links in profiles (one guild)
profile_ips(profiles, u) ==
    IF u \in DOMAIN profiles
    THEN {profiles[u].verification_data.ip_raw} ELSE {}

linked_ips(u) == profile_ips(user_profiles, u)

\* the test of lines 675-679 with profiles for self.user_profiles: the
\* joining member is to be banned
auto_ban(profiles, u) == \E ip \in profile_ips(profiles, u) : is_ip_banned(ip)

\* on_member_join.  A user joins the guild: the member is banned at once
\* when the profile links a banned ip and the platform allows the ban;
\* otherwise the invite is tracked, the unverified role is given, and
\* guild.get_member finds the id from now on.  current and again are the
\* answers of guild.invites(); forbidden holds the calls the platform
\* refuses.
MemberJoin(u, current, again, forbidden) ==
    /\ pc = "Idle"
    /\ u \notin members
    /\ IF (\E ip \in linked_ips(u) : is_ip_banned(ip))
          /\ "ban" \notin forbidden
       THEN /\ join' = [member |-> u, outcome |-> "banned", ban |-> "done",
                        inviter |-> NoInviter, invites |-> current,
                        again |-> again]
            /\ UNCHANGED <<members, roles, registry>>
       ELSE LET t == track_invite_usage(u, current, again)
                refused == \E ip \in linked_ips(u) : is_ip_banned(ip)
                give == /\ config.auto_unverified_enabled
                        /\ config.unverified_role
                        /\ "unverified" \notin forbidden
            IN  /\ guild_invites' = t.guild_invites
                /\ invite_data' = t.invite_data
                /\ members' = members \cup {u}
                /\ roles' = [roles EXCEPT ![u] =
                                 IF give THEN @ \cup {"unverified"} ELSE @]
                /\ join' = [member |-> u, outcome |-> "joined",
                            ban |-> IF refused THEN "forbidden" ELSE "none",
                            inviter |-> t.inviter, invites |-> current,
                            again |-> again]
                /\ UNCHANGED ip_bans
    /\ pc' = "Finished"
    /\ UNCHANGED <<store, config, sub, outcome, is_blacklisted, is_vpn,
                   alert, reply, actuation, evalv, cmd,
                   persistv, sweepv, pingv>>

\* a member leaves the guild and loses the roles held there
MemberLeave(u) ==
    /\ pc = "Idle"
    /\ u \in members
    /\ members' = members \ {u}
    /\ roles' = [roles EXCEPT ![u] = {}]
    /\ UNCHANGED <<store, config, handler, evalv, registry, events,
                   persistv, sweepv, pingv>>

Next ==
    \/ \E u \in Users, h \in Hwids, ip \in SubmittedIps :
          RejectNotAMember(u, h, ip)
    \/ \E u \in Users, h \in Hwids, ip \in SubmittedIps :
          RejectBlacklisted(u, h, ip)
    \/ \E u \in Users, h \in Hwids, ip \in SubmittedIps :
          FlagDuplicateHwid(u, h, ip)
    \/ \E u \in Users, h \in Hwids, ip \in SubmittedIps :
          FlagRisk(u, h, ip)
    \/ \E u \in Users, h \in Hwids, ip \in SubmittedIps :
          Commit(u, h, ip)
    \/ ClearAttempts
    \/ RoleSync
    \/ Notify
    \/ Return
    \/ \E u \in Users : blacklist_add(u)
    \/ \E u \in Users : blacklist_remove(u)
    \/ \E u \in Users : unblacklist_command(u)
    \/ blacklist_clear
    \/ \E u \in Users : unverify_command(u)
    \/ \E u \in Users : MemberJoin(u, InvitesRaised, InvitesRaised, {})
    \/ \E u \in Users : MemberLeave(u)

Spec == Init /\ [][Next]_vars

\* the same, with every await of the handler returning: a handler that
\* can go on does go on
SpecLive ==
    /\ Init
    /\ [][Next]_vars
    /\ WF_vars(ClearAttempts)
    /\ WF_vars(RoleSync)
    /\ WF_vars(Notify)

----------------------------------------------------------------------------
(* The ip ban commands (src/bot/commands_continuation.py) and the invite   *)
(* tracking switch of config_command.                                      *)

ipban_alert == [audience |-> "admin", reason |-> "IP ban"]

\* ipban_command; forbidden holds the members the platform refuses to ban
ipban_command(ip, reason, banned_by, forbidden) ==
    /\ pc = "Idle"
    /\ LET users == get_users_by_ip(ip)
           r == ban_ip(ip, reason, banned_by)
           gone == (users \cap members) \ forbidden
           refused(response) ==
               /\ cmd' = [op |-> "ipban", ip |-> ip, returned |-> FALSE,
                          response |-> response]
               /\ UNCHANGED <<ip_bans, members, roles, alert>>
       IN  IF ~is_valid_ip(ip) THEN refused("Invalid IP address format")
           ELSE IF users = {} THEN refused("No users found")
           ELSE IF ~r.returned THEN refused("Failed to ban IP address")
           ELSE /\ ip_bans' = r.ip_bans
                /\ members' = members \ gone
                /\ roles' = [u \in Users |->
                                 IF u \in gone THEN {} ELSE roles[u]]
                /\ alert' = ipban_alert
                /\ cmd' = [op |-> "ipban", ip |-> ip, returned |-> TRUE,
                           response |-> "IP Address Banned"]
    /\ pc' = "Finished"
    /\ UNCHANGED <<store, config, sub, outcome, is_blacklisted, is_vpn,
                   reply, actuation, evalv, guild_invites, invite_data,
                   join,
                   persistv, sweepv, pingv>>

\* ipunban_command
ipunban_command(ip) ==
    /\ pc = "Idle"
    /\ IF ~is_valid_ip(ip)
       THEN /\ cmd' = [op |-> "ipunban", ip |-> ip, returned |-> FALSE,
                       response |-> "Invalid IP address format"]
            /\ UNCHANGED ip_bans
       ELSE LET r == unban_ip(ip)
            IN  /\ ip_bans' = r.ip_bans
                /\ cmd' = [op |-> "ipunban", ip |-> ip,
                           returned |-> r.returned,
                           response |-> IF r.returned
                                        THEN "IP Address Unbanned"
                                        ELSE "not found in ban list"]
    /\ pc' = "Finished"
    /\ UNCHANGED <<store, config, members, roles, sub, outcome,
                   is_blacklisted, is_vpn, alert, reply, actuation, evalv,
                   guild_invites, invite_data, join,
                   persistv, sweepv, pingv>>

\* config_command, setting invite_tracking: switching it on stores the use
\* counts the platform reports (when the listing does not raise)
config_invite_tracking(value, current) ==
    /\ pc = "Idle"
    /\ config' = [config EXCEPT !.invite_tracking_enabled = value]
    /\ guild_invites' = IF value /\ current.ok
                        THEN [known |-> TRUE, invites |-> current.invites]
                        ELSE guild_invites
    /\ UNCHANGED <<store, members, roles, handler, evalv, ip_bans,
                   invite_data, events,
                   persistv, sweepv, pingv>>

BanConfig == [RolesConfig EXCEPT !.unverified_role = TRUE]

\* the ip ban registry with the submissions that are accepted
BanIps == {IpPublic, IpPrivate, IpOutOfRange}
LinkedIps == {IpPublic, IpOutOfRange}

InitBan ==
    /\ config = BanConfig
    /\ InitData

NextBan ==
    \/ \E u \in Users, h \in Hwids, ip \in LinkedIps : Commit(u, h, ip)
    \/ ClearAttempts
    \/ RoleSync
    \/ Notify
    \/ Return
    \/ \E u \in Users : unverify_command(u)
    \/ \E u \in Users, forbidden \in SUBSET {"ban", "unverified"} :
          MemberJoin(u, InvitesRaised, InvitesRaised, forbidden)
    \/ \E u \in Users : MemberLeave(u)
    \/ \E ip \in BanIps, reason \in Reasons, banned_by \in Actors,
          forbidden \in SUBSET Users :
          ipban_command(ip, reason, banned_by, forbidden)
    \/ \E ip \in BanIps : ipunban_command(ip)

SpecBan == InitBan /\ [][NextBan]_vars

\* joins with invite tracking, for one user who may be ip banned
InviteUsers == {"u1"}

InitInvite ==
    /\ config = BanConfig
    /\ InitData

NextInvite ==
    \/ \E value \in BOOLEAN, current \in InviteResponses :
          config_invite_tracking(value, current)
    \/ \E u \in InviteUsers, current \in InviteResponses,
          forbidden \in SUBSET {"ban", "unverified"} :
          \E again \in SecondResponses(current) :
              MemberJoin(u, current, again, forbidden)
    \/ \E u \in InviteUsers : MemberLeave(u)
    \/ \E u \in InviteUsers : Commit(u, "hw1", IpPublic)
    \/ ClearAttempts
    \/ RoleSync
    \/ Notify
    \/ Return
    \/ \E forbidden \in SUBSET InviteUsers :
          ipban_command(IpPublic, "abuse", "admin1", forbidden)
    \/ ipunban_command(IpPublic)

SpecInvite == InitInvite /\ [][NextInvite]_vars

----------------------------------------------------------------------------
(* The handlers with their saves, one await at a time.  A handler runs     *)
(* from one await to the next without interruption; while it is suspended  *)
(* at an await, the other handler, a reconnect or the end of the process   *)
(* may come in between.  The success path is followed for one submission,  *)
(* next to the handler of an overlapping failing submission.               *)

Memory == [verification_data |-> verification_data,
           blacklist |-> blacklist,
           failed_attempts |-> failed_attempts]

NoRecord == [hwid |-> "none", ip_raw |-> <<>>, user_id |-> "none"]

\* the record of user u that load_data would read from the data file
stored_record(fs, u) ==
    IF fs[DATA_FILE].state = "written"
    THEN Get(json_loads(fs[DATA_FILE].text.verification_data), u, NoRecord)
    ELSE NoRecord

\* what a submission of user u finds when it starts: the record and the
\* profile of u in memory, the record in the data file, the profiles file
\* and the roles of u
Started(u) ==
    [verification_data |-> Get(verification_data, u, NoRecord),
     user_profiles |-> u \in DOMAIN user_profiles,
     stored_record |-> stored_record(files, u),
     profiles_file |-> files[USER_PROFILES_FILE],
     roles |-> roles[u]]

Suspended == {"profiles_open", "profiles_write", "data_open", "data_write",
              "roles"}

\* lines 1455-1471 and create_user_profile up to the open of
\* save_user_profiles: the record and the profile are written in memory
commit_record(u, h, ip) ==
    /\ pc = "Idle"
    /\ tasks["submission"].pc = "idle"
    /\ Accepted([discord_id |-> u, hwid |-> h, ip |-> ip])
    /\ LET data == [hwid |-> h, ip_raw |-> ip, user_id |-> u]
       IN  /\ verification_data' = Put(verification_data, u, data)
           /\ user_profiles' = create_user_profile(u, data)
    /\ tasks' = [tasks EXCEPT !["submission"] =
                    [op |-> "verify", user |-> u, pc |-> "profiles_open",
                     buf |-> NoText, after |-> "none", exit |-> "none",
                     started |-> Started(u)]]
    /\ UNCHANGED <<blacklist, failed_attempts, config, members, roles,
                   handler, evalv, registry, events, files, sweepv, pingv>>

\* save_user_profiles: the file is opened for writing, the profiles are
\* serialized
save_user_profiles_open(t) ==
    /\ tasks[t].pc = "profiles_open"
    /\ files' = open_w(files, USER_PROFILES_FILE, t)
    /\ tasks' = [tasks EXCEPT ![t].pc = "profiles_write",
                              ![t].buf = json_dumps(user_profiles)]
    /\ UNCHANGED <<store, config, members, roles, handler, evalv, registry,
                   events, sweepv, pingv>>

\* save_user_profiles: the text is written; create_user_profile returns
\* and save_data (line 1473) runs up to its open
save_user_profiles_write(t) ==
    /\ tasks[t].pc = "profiles_write"
    /\ \E landed \in Landings(files, t, tasks[t].buf) :
          files' = save_data_begin(
                       write_close(files, t, tasks[t].buf, landed))
    /\ tasks' = [tasks EXCEPT ![t].pc = "data_open", ![t].buf = NoText,
                              ![t].after = "clear"]
    /\ UNCHANGED <<store, config, members, roles, handler, evalv, registry,
                   events, sweepv, pingv>>

\* save_user_profiles: the open or the write raises; the exception is
\* logged and the handler goes on to save_data
save_user_profiles_error(t) ==
    /\ tasks[t].pc \in {"profiles_open", "profiles_write"}
    /\ files' = save_data_begin(close(files, t))
    /\ tasks' = [tasks EXCEPT ![t].pc = "data_open", ![t].buf = NoText,
                              ![t].after = "clear"]
    /\ UNCHANGED <<store, config, members, roles, handler, evalv, registry,
                   events, sweepv, pingv>>

\* save_data: the file is opened for writing, the collections are
\* serialized as they are at that moment
save_data_open(t) ==
    /\ tasks[t].pc = "data_open"
    /\ files' = open_w(files, DATA_FILE, t)
    /\ tasks' = [tasks EXCEPT ![t].pc = "data_write",
                              ![t].buf = data_text(verification_data,
                                                   blacklist,
                                                   failed_attempts)]
    /\ UNCHANGED <<store, config, members, roles, handler, evalv, registry,
                   events, sweepv, pingv>>

\* save_data: the text is written and the call returns.  After the save
\* of line 1473 the counter of the user is deleted and saved (1476-1478);
\* after that one the role calls follow; the failing handler returns; the
\* un-verify command goes on to its role calls.
save_data_write(t) ==
    /\ tasks[t].pc = "data_write"
    /\ \E landed \in Landings(files, t, tasks[t].buf) :
          LET fs == write_close(files, t, tasks[t].buf, landed)
              clear == /\ tasks[t].after = "clear"
                       /\ tasks[t].user \in DOMAIN failed_attempts
          IN  /\ files' = IF clear THEN save_data_begin(fs) ELSE fs
              /\ failed_attempts' =
                     IF clear THEN Del(failed_attempts, tasks[t].user)
                     ELSE failed_attempts
              /\ tasks' = [tasks EXCEPT
                     ![t].buf = NoText,
                     ![t].pc = IF clear THEN "data_open"
                               ELSE IF tasks[t].after = "return"
                               THEN "ended"
                               ELSE IF tasks[t].after = "unverify"
                               THEN "unverify_roles" ELSE "roles",
                     ![t].after = IF clear THEN "roles" ELSE "none",
                     ![t].exit = IF ~clear /\ tasks[t].after = "return"
                                 THEN "returned" ELSE "none"]
    /\ UNCHANGED <<verification_data, blacklist, user_profiles, config,
                   members, roles, handler, evalv, registry, events, sweepv,
                   pingv>>

\* save_data: the open or the write raises; the exception is logged and
\* raised again, which ends the handler
save_data_error(t) ==
    /\ tasks[t].pc \in {"data_open", "data_write"}
    /\ files' = close(files, t)
    /\ tasks' = [tasks EXCEPT ![t].pc = "ended", ![t].buf = NoText,
                              ![t].exit = "raised"]
    /\ UNCHANGED <<store, config, members, roles, handler, evalv, registry,
                   events, sweepv, pingv>>

\* lines 1480-1532: the role calls and the reply
role_sync_notify(t) ==
    /\ tasks[t].pc = "roles"
    /\ \E forbidden \in SUBSET {"verified"}, dm \in {TRUE} :
          LET r == apply_verified(roles[tasks[t].user], forbidden)
          IN  /\ roles' = [roles EXCEPT ![tasks[t].user] = r.roles]
              /\ actuation' = r.actuation
              /\ reply' = IF r.actuation = "failed"
                          THEN [embed |-> "Permission Error", dm |-> FALSE]
                          ELSE [embed |-> "Verification Successful",
                                dm |-> dm]
    /\ tasks' = [tasks EXCEPT ![t].pc = "ended", ![t].exit = "returned"]
    /\ UNCHANGED <<store, config, members, pc, sub, outcome, is_blacklisted,
                   is_vpn, alert, evalv, registry, events, files, sweepv,
                   pingv>>

\* the not-a-member branch of another submission up to the open of
\* save_data: increment_failed_attempts counts and starts its save
failed_submission(u) ==
    /\ pc = "Idle"
    /\ tasks["overlapping"].pc = "idle"
    /\ u \notin members
    /\ Get(failed_attempts, u, 0) < MaxStoreFailures
    /\ LET r == increment_failed_attempts(u)
       IN  /\ failed_attempts' = r.failed_attempts
           /\ blacklist' = r.blacklist
    /\ updated_at' = Put(updated_at, u, now)
    /\ files' = save_data_begin(files)
    /\ tasks' = [tasks EXCEPT !["overlapping"] =
                    [NoTask EXCEPT !.op = "failure", !.user = u,
                                   !.pc = "data_open", !.after = "return"]]
    /\ UNCHANGED <<verification_data, user_profiles, config, members, roles,
                   handler, evalv, registry, events, now, last_cleanup,
                   pingv>>

\* the task is cancelled at the await it is suspended at
cancel(t) ==
    /\ tasks[t].pc \in Suspended
    /\ files' = close(files, t)
    /\ tasks' = [tasks EXCEPT ![t].pc = "ended", ![t].buf = NoText,
                              ![t].exit = "cancelled"]
    /\ UNCHANGED <<store, config, members, roles, handler, evalv, registry,
                   events, sweepv, pingv>>

\* the handler is gone
task_exit(t) ==
    /\ tasks[t].pc = "ended"
    /\ tasks' = [tasks EXCEPT ![t] = NoTask]
    /\ reply' = IF t = "submission" THEN NoReply ELSE reply
    /\ actuation' = IF t = "submission" THEN "none" ELSE actuation
    /\ UNCHANGED <<store, config, members, roles, pc, sub, outcome,
                   is_blacklisted, is_vpn, alert, evalv, registry, events,
                   files, sweepv, pingv>>

\* on_ready after a reconnect: load_data runs on the collections the
\* process holds.  (The unverified role, which on_ready hands out next, is
\* not configured here.)
on_ready ==
    /\ LET loaded == load_data(files, Memory)
       IN  /\ verification_data' = loaded.verification_data
           /\ blacklist' = loaded.blacklist
           /\ failed_attempts' = loaded.failed_attempts
    /\ files' = IF load_raises(files) THEN create_backup_files(files)
                ELSE files
    /\ UNCHANGED <<user_profiles, config, members, roles, handler, evalv,
                   registry, events, tasks, sweepv, pingv>>

\* the process ends and is started again: __init__ sets every collection
\* empty (its load_data, load_invite_data, load_ip_bans and
\* load_user_profiles calls create coroutines that are never awaited, so
\* nothing is read), then on_ready awaits load_data
restart ==
    /\ tasks' = NoTasks
    /\ LET fs == [f \in FileNames |-> [files[f] EXCEPT !.handles = {}]]
           loaded == load_data(fs, [verification_data |-> EmptyDict,
                                    blacklist |-> <<>>,
                                    failed_attempts |-> EmptyDict])
       IN  /\ verification_data' = loaded.verification_data
           /\ blacklist' = loaded.blacklist
           /\ failed_attempts' = loaded.failed_attempts
           /\ files' = IF load_raises(fs) THEN create_backup_files(fs)
                       ELSE fs
    /\ user_profiles' = EmptyDict
    /\ ip_bans' = EmptyDict
    /\ invite_data' = EmptyDict
    /\ guild_invites' = NoInvites
    /\ reply' = NoReply
    /\ actuation' = "none"
    /\ UNCHANGED <<config, members, roles, pc, sub, outcome, is_blacklisted,
                   is_vpn, alert, evalv, events, sweepv, pingv>>

StoreMembers == {"u1"}
StoreHwids == {"hw1"}
StoreIps == {IpPublic}

\* u1 is a member of the guild, u2 is not.  Either nothing has happened
\* yet and there is no data file, or u1 failed once before joining and the
\* data file holds that counter.
InitStore ==
    /\ config = RolesConfig
    /\ verification_data = EmptyDict
    /\ blacklist = <<>>
    /\ \E n \in 0..1 :
          /\ failed_attempts = [u \in { m \in StoreMembers : n > 0 } |-> n]
          /\ files = IF n = 0 THEN NoFiles
                     ELSE save_data_whole(NoFiles,
                              data_text(EmptyDict, <<>>, failed_attempts))
    /\ user_profiles = EmptyDict
    /\ members = StoreMembers
    /\ roles = [u \in Users |-> {}]
    /\ HandlerIdle
    /\ eval_args = NoEval
    /\ eval_result = NoDetection
    /\ ip_bans = EmptyDict
    /\ guild_invites = NoInvites
    /\ invite_data = EmptyDict
    /\ cmd = NoCmd
    /\ join = NoJoin
    /\ tasks = NoTasks
    /\ now = 0
    /\ updated_at = failed_attempts
    /\ last_cleanup = <<>>
    /\ ping_args = NoPing
    /\ ping_field = NoField

NextStore ==
    \/ \E u \in StoreMembers, h \in StoreHwids, ip \in StoreIps :
          commit_record(u, h, ip)
    \/ \E t \in Tasks : save_user_profiles_open(t)
    \/ \E t \in Tasks : save_user_profiles_write(t)
    \/ \E t \in Tasks : save_user_profiles_error(t)
    \/ \E t \in Tasks : save_data_open(t)
    \/ \E t \in Tasks : save_data_write(t)
    \/ \E t \in Tasks : save_data_error(t)
    \/ \E t \in Tasks : role_sync_notify(t)
    \/ \E u \in Users : failed_submission(u)
    \/ \E t \in Tasks : cancel(t)
    \/ \E t \in Tasks : task_exit(t)
    \/ on_ready
    \/ restart

SpecStore == InitStore /\ [][NextStore]_vars

----------------------------------------------------------------------------
(* A submission on its success path next to an un-verify command for the   *)
(* same user, each suspended at the awaits of its saves and role calls.    *)
(* Every save and every role call of the command succeeds.                 *)

\* unverify_command, lines 1294-1296 up to the open of save_data: the
\* record is deleted in memory
unverify_record(u) ==
    /\ pc = "Idle"
    /\ tasks["overlapping"].pc = "idle"
    /\ u \in DOMAIN verification_data
    /\ verification_data' = Del(verification_data, u)
    /\ files' = save_data_begin(files)
    /\ tasks' = [tasks EXCEPT !["overlapping"] =
                    [NoTask EXCEPT !.op = "unverify", !.user = u,
                                   !.pc = "data_open", !.after = "unverify"]]
    /\ UNCHANGED <<blacklist, failed_attempts, user_profiles, config,
                   members, roles, handler, evalv, registry, events, sweepv,
                   pingv>>

\* unverify_command, lines 1299-1315: the role calls and the answer
unverify_roles(t, forbidden) ==
    /\ tasks[t].pc = "unverify_roles"
    /\ roles' = IF tasks[t].user \in members
                THEN [roles EXCEPT ![tasks[t].user] =
                         apply_unverified(@, forbidden)]
                ELSE roles
    /\ tasks' = [tasks EXCEPT ![t].pc = "ended", ![t].exit = "returned"]
    /\ UNCHANGED <<store, config, members, handler, evalv, registry, events,
                   files, sweepv, pingv>>

NextOverlap ==
    \/ \E u \in StoreMembers, h \in StoreHwids, ip \in StoreIps :
          commit_record(u, h, ip)
    \/ \E t \in Tasks : save_user_profiles_open(t)
    \/ \E t \in Tasks : save_user_profiles_write(t)
    \/ \E t \in Tasks : save_data_open(t)
    \/ \E t \in Tasks : save_data_write(t)
    \/ \E t \in Tasks : role_sync_notify(t)
    \/ \E u \in StoreMembers : unverify_record(u)
    \/ \E t \in Tasks : unverify_roles(t, {})
    \/ \E t \in Tasks : task_exit(t)

SpecOverlap == InitStore /\ [][NextOverlap]_vars

----------------------------------------------------------------------------
(* AttemptTracker cleanup: cleanup_task next to the failing submissions    *)
(* that write the counters.  now counts days; updated_at is the day line   *)
(* 381 last wrote the counter of a user, a value the program itself does   *)
(* not keep.  auto_cleanup_enabled has its default, True.                  *)

\* isinstance(timestamp, str): the counters are the integers of line 381
isinstance_str(timestamp) == timestamp \notin Int

\* datetime.fromisoformat(timestamp), a timestamp string being <<day>>
fromisoformat(timestamp) == timestamp[1]

\* the user ids cleanup_task collects for deletion
old_attempts(cutoff_date) ==
    { user_id \in DOMAIN failed_attempts :
          /\ isinstance_str(failed_attempts[user_id])
          /\ fromisoformat(failed_attempts[user_id]) < cutoff_date }

cleanup_task ==
    /\ LET cutoff_date == now - RetentionDays
           old == old_attempts(cutoff_date)
           kept == [u \in DOMAIN failed_attempts \ old |->
                       failed_attempts[u]]
       IN  /\ failed_attempts' = kept
           /\ updated_at' = [u \in DOMAIN updated_at \ old |-> updated_at[u]]
           /\ files' = IF old # {}
                       THEN save_data_whole(files,
                                data_text(verification_data, blacklist,
                                          kept))
                       ELSE files
    /\ last_cleanup' = <<now>>
    /\ UNCHANGED <<verification_data, blacklist, user_profiles, config,
                   members, roles, handler, evalv, registry, events, tasks,
                   now, pingv>>

\* a day passes
day_passes ==
    /\ now < MaxDay
    /\ now' = now + 1
    /\ UNCHANGED <<store, config, members, roles, handler, evalv, registry,
                   events, persistv, updated_at, last_cleanup, pingv>>

InitSweep ==
    /\ config = RolesConfig
    /\ InitData

NextSweep ==
    \/ \E u \in Users : failed_submission(u)
    \/ \E t \in Tasks : save_data_open(t)
    \/ \E t \in Tasks : save_data_write(t)
    \/ \E t \in Tasks : task_exit(t)
    \/ day_passes
    \/ cleanup_task

SpecSweep == InitSweep /\ [][NextSweep]_vars

----------------------------------------------------------------------------
(* ModerationActuator on its own: the success path of one member, run any  *)
(* number of times, from every set of roles the member may hold and under  *)
(* every combination of the configured roles.                              *)

RoleConfigs ==
    { [DefaultConfig EXCEPT !.verification_role = v, !.unverified_role = n,
                            !.autorole_role = a, !.autorole_enabled = e] :
          v \in BOOLEAN, n \in BOOLEAN, a \in BOOLEAN, e \in BOOLEAN }

InitRoles ==
    /\ config \in RoleConfigs
    /\ verification_data = EmptyDict
    /\ blacklist = <<>>
    /\ failed_attempts = EmptyDict
    /\ user_profiles = EmptyDict
    /\ members = StoreMembers
    /\ \E rs \in SUBSET Roles :
          roles = [u \in Users |-> IF u \in StoreMembers THEN rs ELSE {}]
    /\ HandlerIdle
    /\ eval_args = NoEval
    /\ eval_result = NoDetection
    /\ ip_bans = EmptyDict
    /\ guild_invites = NoInvites
    /\ invite_data = EmptyDict
    /\ cmd = NoCmd
    /\ join = NoJoin
    /\ files = NoFiles
    /\ tasks = NoTasks
    /\ now = 0
    /\ updated_at = EmptyDict
    /\ last_cleanup = <<>>
    /\ ping_args = NoPing
    /\ ping_field = NoField

NextRoles ==
    \/ \E u \in StoreMembers, h \in StoreHwids, ip \in StoreIps :
          Commit(u, h, ip)
    \/ ClearAttempts
    \/ RoleSync
    \/ Notify
    \/ Return

SpecRoles == InitRoles /\ [][NextRoles]_vars

----------------------------------------------------------------------------
(* AlertDispatcher on its own: ping_administrators called for any tier,    *)
(* with the tier switched on or off, on guilds of every size.              *)

\* a member of the guild: privileged members hold every right the tiers
\* look for
Member(i, is_bot, privileged) ==
    <<i, is_bot, privileged, privileged, privileged, FALSE>>

\* guild.members: size privileged members, after a privileged bot and a
\* member without any right when others is set
GuildOf(size, others) ==
    (IF others
     THEN <<Member(0, TRUE, TRUE), Member(size + 1, FALSE, FALSE)>>
     ELSE <<>>)
    \o [i \in 1..size |-> Member(i, FALSE, TRUE)]

PingCall(ping_type, enabled, guild) ==
    /\ ping_args' = [enabled |-> enabled, guild |-> guild,
                     ping_type |-> ping_type]
    /\ ping_field' = ping_administrators(ping_type, enabled, guild)
    /\ UNCHANGED <<store, config, members, roles, handler, evalv, registry,
                   events, persistv, sweepv>>

InitAlert ==
    /\ config = RolesConfig
    /\ InitData

NextAlert ==
    \E ping_type \in AlertTiers, enabled \in BOOLEAN,
       size \in 0..MaxTargets, others \in BOOLEAN :
          PingCall(ping_type, enabled, GuildOf(size, others))

SpecAlert == InitAlert /\ [][NextAlert]_vars

----------------------------------------------------------------------------
(* The risk evaluator on its own: detect_vpn applied to any address and    *)
(* any combination of supplied signals.                                    *)

InitEval ==
    /\ Init
    /\ config = RolesConfig

DetectVpnCall(ip, additional_data) ==
    /\ eval_args' = [ip |-> ip, additional_data |-> additional_data]
    /\ eval_result' = detect_vpn(ip, additional_data)
    /\ UNCHANGED <<store, config, members, roles, handler, registry,
                   events,
                   persistv, sweepv, pingv>>

\* the thresholds an operator may write into the configuration file
Thresholds == {WebrtcWeight - TimezoneWeight, VpnThreshold, PrivateConfidence}

\* load_config: the keys of the file are merged into self.config
load_config(risk_threshold) ==
    /\ config' = [config EXCEPT !.risk_threshold = {risk_threshold}]
    /\ UNCHANGED <<store, members, roles, handler, evalv, registry, events,
                   persistv, sweepv, pingv>>

NextEval ==
    \/ \E ip \in EvalIps, additional_data \in SUBSET Signals :
          DetectVpnCall(ip, additional_data)
    \/ \E risk_threshold \in Thresholds : load_config(risk_threshold)

SpecEval == InitEval /\ [][NextEval]_vars

----------------------------------------------------------------------------
(* Vocabulary of the properties *)

RecordOf(vd, u) == IF u \in DOMAIN vd THEN vd[u] ELSE NoRecord

\* some other user's stored record holds the hwid
HeldByOther(h, u) ==
    \E v \in DOMAIN verification_data :
        v # u /\ verification_data[v].hwid = h

\* the step in which process_verification_request takes up a submission
SubmissionStep == pc = "Idle" /\ pc' # "Idle" /\ sub' # NoSub

\* the submission taken up in this step passes the checks that come before
\* the duplicate check
PassesMemberAndBlacklist ==
    /\ sub'.discord_id \in members
    /\ sub'.discord_id \notin Range(blacklist)

NoSharedHwid ==
    \A u, v \in DOMAIN verification_data :
        u # v => verification_data[u].hwid # verification_data[v].hwid

----------------------------------------------------------------------------
(* C1: no two records of different userIds hold the same hwid, whatever     *)
(* submissions, un-verify and blacklist commands were handled; a submission *)
(* whose hwid is recorded for a different userId writes or overwrites no    *)
(* record, and once past the member and blacklist checks that come first    *)
(* it ends in Flagged:DuplicateHwid.                                        *)
C1_UniqueHwid ==
    /\ []NoSharedHwid
    /\ [][ (SubmissionStep /\ HeldByOther(sub'.hwid, sub'.discord_id)) =>
              /\ verification_data' = verification_data
              /\ PassesMemberAndBlacklist =>
                     outcome' = "Flagged:DuplicateHwid" ]_vars

\* a user holding a record under one hwid submits the hwid of another
\* user's record and is flagged; both records are still there
C1_Witness ==
    /\ outcome = "Flagged:DuplicateHwid"
    /\ HeldByOther(sub.hwid, sub.discord_id)
    /\ sub.discord_id \in DOMAIN verification_data
    /\ verification_data[sub.discord_id].hwid # sub.hwid

(* C2: while a userId is in the blacklist, no step of                      *)
(* process_verification_request creates, updates or removes the record of  *)
(* that userId.                                                            *)
C2_BlacklistedRecordFrozen ==
    [][ \A u \in Users :
           (u \in Range(blacklist) /\ (pc # "Idle" \/ pc' # "Idle")) =>
               RecordOf(verification_data', u) = RecordOf(verification_data, u)
      ]_vars

\* a blacklisted member holding a record submits another hwid and is
\* rejected
C2_Witness ==
    /\ outcome = "Rejected:Blacklisted"
    /\ sub.discord_id \in Range(blacklist)
    /\ sub.discord_id \in DOMAIN verification_data
    /\ verification_data[sub.discord_id].hwid # sub.hwid

(* C3: no userId occurs more than once in the blacklist.                   *)
C3_NoDuplicateEntries == \A u \in Users : Count(blacklist, u) <= 1

(* C4: with auto-blacklist enabled and threshold N, the recordFailure call *)
(* that takes the counter of a user to k (the k-th call since the counter  *)
(* was absent: a counter only moves up by one per call or back to absent)  *)
(* returns false and leaves the blacklist alone for k < N, and returns     *)
(* true and puts the user in the blacklist for k = N.                      *)
C4_ThresholdCall ==
    /\ [][ \A u \in Users :
              Get(failed_attempts', u, 0) \in
                  {Get(failed_attempts, u, 0), Get(failed_attempts, u, 0) + 1, 0}
         ]_vars
    /\ [][ (SubmissionStep /\ outcome' = "Rejected:NotAMember"
              /\ config.auto_blacklist_enabled) =>
              LET u == sub'.discord_id
                  k == Get(failed_attempts, u, 0) + 1
                  N == config.max_failed_attempts
              IN  /\ Get(failed_attempts', u, 0) = k
                  /\ k < N => (~is_blacklisted' /\ blacklist' = blacklist)
                  /\ k = N => /\ is_blacklisted'
                              /\ blacklist' = Append(blacklist, u)
                              /\ u \in Range(blacklist') ]_vars

\* the N-th call has just returned true and put the user in the blacklist
C4_Witness ==
    /\ outcome = "Rejected:NotAMember"
    /\ config.auto_blacklist_enabled
    /\ failed_attempts[sub.discord_id] = config.max_failed_attempts
    /\ is_blacklisted
    /\ Count(blacklist, sub.discord_id) = 1

(* C5: a submission that ends in Flagged:DuplicateHwid writes no record,   *)
(* makes the mute-hold call for the member (the member holds the mute role *)
(* afterwards unless the platform refuses the call or no mute role is      *)
(* configured) and calls for a moderator-audience alert.                   *)
C5_DuplicateHold ==
    [][ (SubmissionStep /\ outcome' = "Flagged:DuplicateHwid") =>
           LET u == sub'.discord_id
           IN  /\ verification_data' = verification_data
               /\ user_profiles' = user_profiles
               /\ config.mute_role => actuation' \in {"applied", "failed"}
               /\ actuation' = "applied" =>
                      roles' = [roles EXCEPT ![u] = @ \cup {"mute"}]
               /\ actuation' # "applied" => roles' = roles
               /\ alert'.audience = "mod"
               /\ reply'.embed = "Duplicate HWID Detected" ]_vars

\* a flagged duplicate: the member is muted and the moderators are pinged
C5_Witness ==
    /\ outcome = "Flagged:DuplicateHwid"
    /\ actuation = "applied"
    /\ "mute" \in roles[sub.discord_id]
    /\ alert.audience = "mod"
    /\ sub.discord_id \notin DOMAIN verification_data

(* C6: a submission that ends in Flagged:Risk adds the userId to the       *)
(* blacklist, makes the mute-hold call for the member (the member holds    *)
(* the mute role afterwards unless the platform refuses the call or no     *)
(* mute role is configured), calls for an admin-audience alert and writes  *)
(* no record.                                                              *)
C6_RiskHold ==
    [][ (SubmissionStep /\ outcome' = "Flagged:Risk") =>
           LET u == sub'.discord_id
           IN  /\ blacklist' = Append(blacklist, u)
               /\ u \in Range(blacklist')
               /\ verification_data' = verification_data
               /\ user_profiles' = user_profiles
               /\ config.mute_role => actuation' \in {"applied", "failed"}
               /\ actuation' = "applied" =>
                      roles' = [roles EXCEPT ![u] = @ \cup {"mute"}]
               /\ actuation' # "applied" => roles' = roles
               /\ alert'.audience = "admin"
               /\ reply'.embed = "VPN/Proxy Detected" ]_vars

\* a risk flag: the member is blacklisted and muted, the admins are pinged
C6_Witness ==
    /\ outcome = "Flagged:Risk"
    /\ sub.discord_id \in Range(blacklist)
    /\ actuation = "applied"
    /\ "mute" \in roles[sub.discord_id]
    /\ alert.audience = "admin"
    /\ sub.discord_id \notin DOMAIN verification_data

(* C7: a submission whose userId is not a guild member ends in             *)
(* Rejected:NotAMember, counts exactly one failure for that userId, writes *)
(* no record, and calls for an admin alert exactly when the failure call   *)
(* returned true; with threshold 3 and auto-blacklist on, the submission   *)
(* that takes the counter to 3 blacklists and alerts.                      *)
C7_NotAMember ==
    [][ (SubmissionStep /\ sub'.discord_id \notin members) =>
           LET u == sub'.discord_id
               k == Get(failed_attempts, u, 0) + 1
           IN  /\ outcome' = "Rejected:NotAMember"
               /\ pc' = "Finished"
               /\ failed_attempts' = Put(failed_attempts, u, k)
               /\ verification_data' = verification_data
               /\ user_profiles' = user_profiles
               /\ alert'.audience = "admin" <=> is_blacklisted'
               /\ ~is_blacklisted' => alert' = NoAlert
               /\ (config.max_failed_attempts = 3
                     /\ config.auto_blacklist_enabled /\ k = 3) =>
                      /\ is_blacklisted'
                      /\ u \in Range(blacklist')
                      /\ alert'.audience = "admin" ]_vars

\* threshold 3: the third failed submission has blacklisted and alerted
C7_Witness ==
    /\ outcome = "Rejected:NotAMember"
    /\ config.max_failed_attempts = 3
    /\ failed_attempts[sub.discord_id] = 3
    /\ is_blacklisted
    /\ sub.discord_id \in Range(blacklist)
    /\ alert.audience = "admin"
    /\ sub.discord_id \notin DOMAIN verification_data

(* C8: a submission by a present, non-blacklisted member with an unused    *)
(* hwid and a non-flagged IP takes the success path and ends in Done; on   *)
(* that path the record is written together with the profile, then the     *)
(* failed-attempt counter is cleared, then the role calls are made, then   *)
(* the notification is sent (the success reply, or the permission-error    *)
(* reply when the platform refused a role call); no member gains the       *)
(* verified role except in the role step of its own submission, with its   *)
(* record stored.                                                          *)
C8_SuccessOrder ==
    /\ [][ (SubmissionStep /\ PassesMemberAndBlacklist
              /\ ~HeldByOther(sub'.hwid, sub'.discord_id)
              /\ sub'.ip = IpPublic) =>
              /\ pc' = "ClearAttempts"
              /\ sub'.discord_id \in DOMAIN verification_data' ]_vars
    /\ [][ /\ pc = "ClearAttempts" => pc' = "RoleSync"
           /\ pc = "RoleSync" => pc' \in {"Notify", "NotifyError"}
           /\ pc \in {"Notify", "NotifyError"} =>
                  (pc' = "Finished" /\ outcome' = "Done")
           /\ outcome' = "Done" => pc \in {"Notify", "NotifyError"} ]_vars
    /\ [](pc \in {"ClearAttempts", "RoleSync", "Notify", "NotifyError"}
            \/ outcome = "Done" =>
            /\ sub.discord_id \in DOMAIN verification_data
            /\ verification_data[sub.discord_id].hwid = sub.hwid
            /\ verification_data[sub.discord_id].ip_raw = sub.ip
            /\ sub.discord_id \in DOMAIN user_profiles
            /\ user_profiles[sub.discord_id].verification_data
                   = verification_data[sub.discord_id])
    /\ [](pc \in {"RoleSync", "Notify", "NotifyError"} \/ outcome = "Done" =>
            sub.discord_id \notin DOMAIN failed_attempts)
    /\ [](pc \in {"ClearAttempts", "RoleSync"} =>
            (actuation = "none" /\ reply = NoReply))
    /\ [](pc \in {"Notify", "NotifyError"} => reply = NoReply)
    /\ [](outcome = "Done" =>
            /\ config.verification_role => actuation \in {"applied", "failed"}
            /\ actuation = "applied" =>
                   "verified" \in roles[sub.discord_id]
            /\ actuation # "failed" =>
                   reply.embed = "Verification Successful"
            /\ actuation = "failed" => reply.embed = "Permission Error")
    /\ [][ \A u \in Users :
              ("verified" \in roles'[u] /\ "verified" \notin roles[u]) =>
                  /\ pc = "RoleSync"
                  /\ u = sub.discord_id
                  /\ u \in DOMAIN verification_data ]_vars

\* Done: record and profile stored, verified role held, success reply sent
C8_Witness ==
    /\ outcome = "Done"
    /\ sub.ip = IpPublic
    /\ sub.discord_id \in DOMAIN verification_data
    /\ sub.discord_id \in DOMAIN user_profiles
    /\ sub.discord_id \notin DOMAIN failed_attempts
    /\ "verified" \in roles[sub.discord_id]
    /\ reply.embed = "Verification Successful"

(* C9: detect_vpn on the private address 10.0.0.5 yields confidence 0.9,   *)
(* the private-range reason and is_vpn true, and a submission from it that *)
(* gets as far as the risk check ends in Flagged:Risk; on the public       *)
(* address 8.8.8.8 with no extra signals it yields is_vpn false, and such  *)
(* a submission goes on to the success path.                               *)
C9_PrivateIpFlagged ==
    /\ []((is_vpn.method = "basic" /\ sub.ip = <<10, 0, 0, 5>>) =>
            /\ is_vpn.confidence = 9
            /\ "Private IP range detected" \in Range(is_vpn.reasons)
            /\ is_vpn.is_vpn
            /\ outcome = "Flagged:Risk")
    /\ []((is_vpn.method = "basic" /\ sub.ip = <<8, 8, 8, 8>>) =>
            /\ is_vpn.confidence = 0
            /\ is_vpn.reasons = <<>>
            /\ ~is_vpn.is_vpn
            /\ outcome # "Flagged:Risk")
    /\ [][ (SubmissionStep /\ PassesMemberAndBlacklist
              /\ ~HeldByOther(sub'.hwid, sub'.discord_id)) =>
              /\ is_vpn'.method = "basic"
              /\ sub'.ip = <<10, 0, 0, 5>> => outcome' = "Flagged:Risk"
              /\ sub'.ip = <<8, 8, 8, 8>> => pc' = "ClearAttempts" ]_vars

\* a submission from 10.0.0.5 has been flagged with confidence 0.9
C9_Witness ==
    /\ outcome = "Flagged:Risk"
    /\ sub.ip = <<10, 0, 0, 5>>
    /\ is_vpn.is_vpn
    /\ is_vpn.confidence = 9

(* C10: the confidence returned by detect_vpn lies in [0,1] (0..10 tenths) *)
(* for every address and every combination of supplied signals.            *)
C10_ConfidenceInUnitInterval ==
    eval_result.confidence >= 0 /\ eval_result.confidence <= 10

----------------------------------------------------------------------------
\* the threshold in force: the configured one, 0.5 when none is configured
ConfiguredThreshold ==
    IF config.risk_threshold = {} THEN VpnThreshold
    ELSE CHOOSE t \in config.risk_threshold : TRUE

\* C11: whatever risk threshold is configured (0.5 by default), a call of
\* detect_vpn flags the address exactly when the confidence it returns is
\* above that threshold.
C11_ConfiguredThreshold ==
    [][ (config' = config /\ evalv' # evalv) =>
           eval_result'.is_vpn
              = (eval_result'.confidence > ConfiguredThreshold) ]_vars

\* the step in which an ipunban / ipban command is answered
UnbanStep == pc = "Idle" /\ cmd'.op = "ipunban"
BanStep == pc = "Idle" /\ cmd'.op = "ipban"

ActiveBan(ip) == ip \in DOMAIN ip_bans /\ ip_bans[ip].active

\* C12: after the unban of a banned ip, is_ip_banned(ip) is false while the
\* ban record is still stored with the reason and the banned_by it had.
C12_UnbanSoftDelete ==
    [][ \A ip \in BanIps :
          (UnbanStep /\ cmd'.ip = ip /\ ActiveBan(ip)) =>
             /\ ~is_ip_banned(ip)'
             /\ ip \in DOMAIN ip_bans'
             /\ ip_bans'[ip].reason = ip_bans[ip].reason
             /\ ip_bans'[ip].banned_by = ip_bans[ip].banned_by ]_vars

\* C13: a ban of any string that parses as an ip succeeds, whether or not a
\* verified user is linked to the ip; is_ip_banned(ip) is true right after
\* it and stays true until the ip is unbanned.
C13_BanSucceeds ==
    /\ [][ \A ip \in BanIps :
             (BanStep /\ cmd'.ip = ip /\ is_valid_ip(ip)) =>
                cmd'.returned /\ is_ip_banned(ip)' ]_vars
    /\ [][ \A ip \in BanIps :
             (is_ip_banned(ip) /\ ~(UnbanStep /\ cmd'.ip = ip)) =>
                is_ip_banned(ip)' ]_vars

\* C14: unban returns true only when an active ban exists for the ip: it
\* returns false for an ip that was never banned and for an ip whose ban an
\* earlier unban has already deactivated.
C14_UnbanReturn ==
    [][ \A ip \in BanIps :
          (UnbanStep /\ cmd'.ip = ip /\ cmd'.returned) => ActiveBan(ip) ]_vars

\* the string is a dotted quad of numbers up to 255
ParsesAsIp(ip) == ip \in (0..255) \X (0..255) \X (0..255) \X (0..255)

\* C15: a ban of a string that does not parse as an ip address fails and
\* leaves the ip ban records as they were.
C15_InvalidBanRejected ==
    [][ \A ip \in BanIps :
          (BanStep /\ cmd'.ip = ip /\ ~ParsesAsIp(ip)) =>
             ~cmd'.returned /\ ip_bans' = ip_bans ]_vars

\* a ban of the malformed address was refused although a verified user is
\* linked to it and another ban is on record
C15_Witness ==
    /\ cmd.op = "ipban"
    /\ cmd.ip = IpOutOfRange
    /\ ~cmd.returned
    /\ cmd.response = "Invalid IP address format"
    /\ get_users_by_ip(IpOutOfRange) # {}
    /\ ip_bans # EmptyDict

\* the step in which on_member_join handles the join of u
JoinStep(u) == pc = "Idle" /\ join'.member = u

\* C16: when the profile of a joining user links an ip with an active ban,
\* the join handler bans the member; unless the platform refuses the ban,
\* the member is gone and the handler has stored no use counts, written no
\* attribution and given no role for that join.
C16_BannedIpEnforcedOnJoin ==
    [][ \A u \in Users :
          (JoinStep(u) /\ \E ip \in linked_ips(u) : ActiveBan(ip)) =>
             /\ join'.ban \in {"done", "forbidden"}
             /\ join'.ban = "done" =>
                   /\ join'.outcome = "banned"
                   /\ u \notin members'
                   /\ UNCHANGED <<guild_invites, invite_data, roles>> ]_vars

\* a member linked to an actively banned ip was banned on joining, at a
\* moment when invite tracking was on and the listing showed a new use
C16_Witness ==
    /\ join.outcome = "banned"
    /\ join.member \in DOMAIN user_profiles
    /\ \E ip \in linked_ips(join.member) : ActiveBan(ip)
    /\ config.invite_tracking_enabled
    /\ join.invites.ok
    /\ used_invite(guild_invites.known, guild_invites.invites,
                   join.invites.invites) # 0

\* C17: an attribution that invite_data holds for a user is never changed
\* by a later member-join event.
C17_InviteWriteOnce ==
    [][ (\E m \in Users : JoinStep(m)) =>
           \A u \in DOMAIN invite_data :
               /\ u \in DOMAIN invite_data'
               /\ invite_data'[u] = invite_data[u] ]_vars

\* the use count of the code at position i of cur is above its count in old
IncreasedAt(old, cur, i) ==
    \E k \in 1..Len(old) :
        old[k].code = cur[i].code /\ cur[i].uses > old[k].uses

\* C18: a join handled with invite tracking is attributed to the first code
\* of the platform's listing whose use count is above its count in the
\* stored snapshot of the guild; when no code's count increased, no
\* attribution is returned and no invite_data entry is written.  (Both
\* listing calls of the handler are answered.)
C18_FirstIncreasedCode ==
    [][ \A u \in Users :
          (/\ JoinStep(u)
           /\ join'.outcome = "joined"
           /\ config.invite_tracking_enabled
           /\ join'.invites.ok /\ join'.again.ok) =>
             LET old == IF guild_invites.known
                        THEN guild_invites.invites ELSE <<>>
                 cur == join'.invites.invites
                 hits == { i \in 1..Len(cur) : IncreasedAt(old, cur, i) }
             IN  /\ \A i \in hits :
                       (\A j \in hits : i <= j) =>
                          /\ u \in DOMAIN invite_data'
                          /\ invite_data'[u].invite_code = cur[i].code
                          /\ invite_data'[u].uses_at_join = cur[i].uses
                 /\ hits = {} =>
                       /\ invite_data' = invite_data
                       /\ join'.inviter = NoInviter ]_vars

\* C19: after a member-join event handled with invite tracking enabled,
\* whether an attribution was found, none was found or the member was
\* banned for a banned ip, the stored snapshot of the guild holds the use
\* counts the platform reports at that join.
C19_SnapshotFollowsListing ==
    [][ \A u \in Users :
          (/\ JoinStep(u)
           /\ config.invite_tracking_enabled
           /\ join'.invites.ok) =>
             /\ guild_invites'.known
             /\ guild_invites'.invites = join'.invites.invites ]_vars

\* the steps that reset the counter of u: the success path dropping it, an
\* entry of u leaving the blacklist, and blacklist clear, which empties the
\* list and drops every counter
CounterResetStep(u) ==
    \/ pc = "ClearAttempts" /\ sub.discord_id = u
    \/ Count(blacklist', u) < Count(blacklist, u)
    \/ /\ pc = "Idle" /\ pc' = "Idle"
       /\ blacklist' = <<>>
       /\ failed_attempts' = EmptyDict

\* the step in which a submission for u fails because u is not a member
FailedSubmissionStep(u) ==
    /\ SubmissionStep
    /\ sub'.discord_id = u
    /\ outcome' = "Rejected:NotAMember"

----------------------------------------------------------------------------
(* Persistence, cleanup, actuation and alerts *)

\* cleanup_task runs in this step
SweepStep == last_cleanup' = <<now>> /\ last_cleanup # <<now>>

\* C21: when the periodic cleanup runs, every failed-attempt counter whose
\* last update is older than the retention window is removed, and every
\* counter updated within the window is kept with its value.
C21_SweepRemovesStale ==
    [][ SweepStep =>
          \A u \in DOMAIN failed_attempts :
             IF updated_at[u] < now - RetentionDays
             THEN u \notin DOMAIN failed_attempts'
             ELSE /\ u \in DOMAIN failed_attempts'
                  /\ failed_attempts'[u] = failed_attempts[u] ]_vars


\* the durable write of the Commit step (the save_data of line 1473) fails
\* in this step
CommitWriteFails ==
    /\ tasks["submission"].pc \in {"data_open", "data_write"}
    /\ tasks["submission"].after = "clear"
    /\ tasks'["submission"].exit = "raised"

\* C22: when the durable write of the Commit step fails, the error is
\* raised and nothing of the submission is left: the record and the profile
\* of the user, in memory and in the files, are what they were when the
\* submission started, no role has changed and no reply has been sent.
C22_FailedCommitLeavesNothing ==
    [][ CommitWriteFails =>
          LET u == tasks["submission"].user
              st == tasks["submission"].started
          IN  /\ Get(verification_data', u, NoRecord) = st.verification_data
              /\ (u \in DOMAIN user_profiles') = st.user_profiles
              /\ stored_record(files', u) = st.stored_record
              /\ files'[USER_PROFILES_FILE] = st.profiles_file
              /\ roles'[u] = st.roles
              /\ reply' = NoReply ]_vars


\* the submission is cancelled in this step, at an await that comes before
\* the write of the save_data of line 1473 has completed
CancelledBeforeCommit ==
    /\ tasks["submission"].pc \in {"profiles_open", "profiles_write",
                                   "data_open", "data_write"}
    /\ tasks["submission"].after \in {"none", "clear"}
    /\ tasks'["submission"].exit = "cancelled"

\* C27: when a success-path submission is cancelled before the Commit
\* write of its record has completed, what is persisted for its user is
\* what was persisted when the submission started: the profiles file and
\* the record of the user in the data file.  (The counters and the
\* blacklist, which an overlapping handler may save in between, are not
\* compared.)
C27_CancelLeavesPersistedState ==
    [][ CancelledBeforeCommit =>
          LET u == tasks["submission"].user
              st == tasks["submission"].started
          IN  /\ files'[USER_PROFILES_FILE] = st.profiles_file
              /\ stored_record(files', u) = st.stored_record ]_vars


\* load_data would read a complete state from the file
Complete(file) == file.state = "written"

\* C23: save is an atomic replace.  Once the data file holds a complete
\* state, it holds a complete state after every step, the steps of a save
\* and the end of the process between them included: it is never missing
\* and never partially written.
C23_SaveIsAtomicReplace ==
    [][ Complete(files[DATA_FILE]) => Complete(files'[DATA_FILE]) ]_vars

\* the files hold what save_data and save_user_profiles write for the
\* collections as they are now
Saved ==
    /\ Complete(files[DATA_FILE])
    /\ files[DATA_FILE].text =
           data_text(verification_data, blacklist, failed_attempts)
    /\ Complete(files[USER_PROFILES_FILE])
    /\ files[USER_PROFILES_FILE].text = json_dumps(user_profiles)

\* the program loads its collections in this step
LoadStep == on_ready \/ restart

\* C24: save followed by load is lossless.  When the collections have been
\* saved as they are, a load gives verification_data, blacklist,
\* failed_attempts and user_profiles the values they had before the save.
C24_SaveLoadLossless ==
    [][ LoadStep /\ Saved =>
          /\ verification_data' = verification_data
          /\ blacklist' = blacklist
          /\ failed_attempts' = failed_attempts
          /\ user_profiles' = user_profiles ]_vars

\* C25: when the stored data cannot be parsed, load does not raise and
\* leaves verification_data, blacklist and failed_attempts empty, at the
\* first start as well as after a reconnect with populated collections.
C25_UnparsableLoadsEmpty ==
    [][ LoadStep /\ load_raises(files) =>
          /\ verification_data' = EmptyDict
          /\ blacklist' = <<>>
          /\ failed_attempts' = EmptyDict ]_vars

\* task t is inside save_data
InSave(t) == tasks[t].pc \in {"data_open", "data_write"}

\* a save_data call returns in this step and leaves no handler in flight
LastSaveReturns ==
    /\ \E t \in Tasks : InSave(t) /\ tasks'[t].pc = "ended"
                        /\ tasks'[t].exit = "returned"
    /\ \A t \in Tasks : tasks'[t].pc \in {"idle", "ended"}

\* C26: concurrent writers are serialized.  Two handlers are never inside
\* save_data at the same time, and when the last save in flight has
\* returned the data file holds the collections as they are in memory.
C26_SavesSerialized ==
    /\ [](~(InSave("submission") /\ InSave("overlapping")))
    /\ [][ LastSaveReturns =>
             /\ Complete(files'[DATA_FILE])
             /\ files'[DATA_FILE].text =
                    data_text(verification_data', blacklist',
                              failed_attempts') ]_vars

\* the role calls of the success path are made in this step and none is
\* refused
VerifiedApplied == pc = "RoleSync" /\ pc' = "Notify"

\* C28: applyVerified is idempotent.  From every role set of the member,
\* applying the verified transition to the role set it has just produced
\* gives the same role set again and raises no error.
C28_ApplyVerifiedIdempotent ==
    [][ VerifiedApplied =>
          LET again == apply_verified(roles'[sub.discord_id], {})
          IN  /\ again.roles = roles'[sub.discord_id]
              /\ again.actuation # "failed" ]_vars

\* the transition has been applied to a member that held the unverified
\* role, with every role configured: the verified role and the auto-role
\* were added, the unverified role was taken away
C28_Witness ==
    /\ pc = "Notify"
    /\ actuation = "applied"
    /\ config.verification_role /\ config.unverified_role
    /\ config.autorole_role /\ config.autorole_enabled
    /\ roles[sub.discord_id] = {"verified", "autorole", "mute"}

\* C29: a permission error of a role or hold action does not fail the
\* pipeline and the decision stays recorded.  While the handler holds a
\* refused role call: on the success path the record of the submission is
\* stored and the handler ends in Done; on the duplicate path the outcome
\* and the moderator alert stand; on the risk path the outcome and the
\* blacklist entry stand.
C29_DecisionKeptOnPermissionError ==
    actuation = "failed" =>
       \/ /\ outcome = "Flagged:DuplicateHwid"
          /\ pc = "Finished"
          /\ alert = duplicate_alert
       \/ /\ outcome = "Flagged:Risk"
          /\ pc = "Finished"
          /\ alert = risk_alert
          /\ sub.discord_id \in Range(blacklist)
       \/ /\ pc = "NotifyError" /\ outcome = "None"
          /\ RecordOf(verification_data, sub.discord_id) =
                 [hwid |-> sub.hwid, ip_raw |-> sub.ip,
                  user_id |-> sub.discord_id]
       \/ /\ pc = "Finished" /\ outcome = "Done"
          /\ reply.embed = "Permission Error"
          /\ RecordOf(verification_data, sub.discord_id) =
                 [hwid |-> sub.hwid, ip_raw |-> sub.ip,
                  user_id |-> sub.discord_id]

\* the verified role was refused and the handler has ended
C29_Witness ==
    /\ actuation = "failed"
    /\ pc = "Finished"
    /\ outcome = "Done"
    /\ "verified" \notin roles[sub.discord_id]
    /\ sub.discord_id \in DOMAIN verification_data

\* C30: no alert carries more than 10 mentions, whatever the tier and
\* however many members the tier resolves to.
C30_AtMostTenMentions == Len(ping_field.mentions) <= 10

\* an alert was produced for a tier that resolves to more than 10 members
C30_Witness ==
    /\ ping_field.added
    /\ Len(mentions_of(ping_args.ping_type, ping_args.guild)) > 10
    /\ Len(ping_field.mentions) = 10

----------------------------------------------------------------------------
(* Validation, ban decisions, order of the checks, removals, alerts,       *)
(* overlapping handlers and termination                                    *)

\* C31: a submission whose IP is malformed is rejected with no state
\* change: no record is written, and the blacklist, the failed-attempt
\* counters and the user profiles stay as they are.
C31_MalformedIpRejected ==
    [][(SubmissionStep /\ ~is_valid_ip(sub'.ip))
          => /\ UNCHANGED store
             /\ pc' = "Finished"
             /\ outcome' # "Done"]_vars

\* the contents user_profiles may have: any users, each with a profile of
\* an earlier verification
ProfileOf(u) ==
    { [verification_data |-> [hwid |-> h, ip_raw |-> ip, user_id |-> u]] :
          h \in Hwids, ip \in LinkedIps }

ProfileContents ==
    UNION { { p \in [S -> UNION { ProfileOf(u) : u \in S }] :
                  \A u \in S : p[u] \in ProfileOf(u) } :
            S \in SUBSET Users }

\* the join handler called member.ban
BanAttempted == join'.ban # "none"

\* C32: the ban decision of the join handler does not depend on the
\* contents of user_profiles: with any other contents, and everything else
\* the same, the handler decides the same for the same joining member.
C32_ProfilesNotDecisive ==
    [][\A u \in Users :
          JoinStep(u) =>
             \A profiles \in ProfileContents :
                 BanAttempted <=> auto_ban(profiles, u)]_vars

\* C33: the checks run in the order member presence, blacklist, duplicate
\* hwid, risk, and the first one that fails decides alone: a submission
\* for an id that is not a member ends in Rejected:NotAMember even when
\* the id is blacklisted; a blacklisted member ends in
\* Rejected:Blacklisted; a member with a duplicate hwid ends in
\* Flagged:DuplicateHwid and is not added to the blacklist, even from a
\* private-range address; only then does the address decide.
C33_FirstFailingCheckDecides ==
    [][SubmissionStep =>
          LET u == sub'.discord_id
              member == u \in members
              listed == u \in Range(blacklist)
              duplicate == HeldByOther(sub'.hwid, u)
          IN  /\ ~member => outcome' = "Rejected:NotAMember"
              /\ (member /\ listed) => outcome' = "Rejected:Blacklisted"
              /\ (member /\ ~listed /\ duplicate) =>
                    /\ outcome' = "Flagged:DuplicateHwid"
                    /\ blacklist' = blacklist
              /\ (member /\ ~listed /\ ~duplicate /\ is_private(sub'.ip)) =>
                    outcome' = "Flagged:Risk"]_vars

\* a member whose hwid is held by another user submitted from a
\* private-range address and was flagged as a duplicate, off the blacklist
C33_Witness ==
    /\ pc = "Finished"
    /\ outcome = "Flagged:DuplicateHwid"
    /\ is_private(sub.ip)
    /\ HeldByOther(sub.hwid, sub.discord_id)
    /\ sub.discord_id \notin Range(blacklist)

\* the users other than u whose current record holds the hwid
Holders(h, u) ==
    { v \in Users \ {u} : RecordOf(verification_data, v).hwid = h }

\* C34: in every state, after re-verifications and un-verifications too,
\* check_hwid_duplicate(hwid, user) is exactly the set of other users whose
\* current record holds the hwid, and a submission of a member who is not
\* blacklisted is flagged as duplicate exactly when that set is not empty;
\* so a hwid whose only holder was un-verified is free again.
C34_DuplicateIndexExact ==
    /\ [](\A h \in Hwids, u \in Users :
             check_hwid_duplicate(h, u) = Holders(h, u))
    /\ [][(/\ SubmissionStep
           /\ sub'.discord_id \in members
           /\ sub'.discord_id \notin Range(blacklist))
          => (outcome' = "Flagged:DuplicateHwid"
                 <=> Holders(sub'.hwid, sub'.discord_id) # {})]_vars

\* a member was accepted with a hwid that another user, un-verified since,
\* was last verified with
C34_Witness ==
    /\ pc = "ClearAttempts"
    /\ RecordOf(verification_data, sub.discord_id).hwid = sub.hwid
    /\ \E v \in Users \ {sub.discord_id} :
          /\ v \in DOMAIN user_profiles
          /\ v \notin DOMAIN verification_data
          /\ user_profiles[v].verification_data.hwid = sub.hwid

\* a blacklist removal of u that succeeds
RemovalStep(u) == blacklist_remove(u) \/ unblacklist_command(u)

\* C35: after a successful removal of a user from the blacklist (blacklist
\* remove or unblacklist) the user is not in the blacklist any more,
\* whatever happened before, so that the next submission of the user is
\* not rejected as blacklisted.
C35_RemovalClearsUser ==
    [][\A u \in Users :
          RemovalStep(u) =>
             /\ u \notin Range(blacklist')
             /\ ~Blacklisted([discord_id |-> u, hwid |-> "hw1",
                               ip |-> IpPublic])']_vars

\* the ip was banned and has been unbanned since
Unbanned(ip) == ip \in DOMAIN ip_bans /\ ~ip_bans[ip].active

\* C36: an ip ban is reversible: a member who joins when every ip the
\* profile links has been unbanned is not banned by the join handler, and
\* the handler does not even try.
C36_UnbanReversesJoinBan ==
    [][\A u \in Users :
          (/\ JoinStep(u)
           /\ linked_ips(u) # {}
           /\ \A ip \in linked_ips(u) : Unbanned(ip))
          => /\ join'.ban = "none"
             /\ join'.outcome = "joined"]_vars

\* the members the tier of the call resolves to
Audience ==
    IF ping_args.ping_type \in AlertTiers /\ ping_args.enabled
    THEN mentions_of(ping_args.ping_type, ping_args.guild)
    ELSE <<>>

\* C37: every call whose audience is not empty produces the alert, with
\* the first min(n, 10) of the n members of the audience; no alert is
\* dropped because the audience is large.
C37_AlertForEveryAudience ==
    Audience # <<>> =>
        /\ ping_field.added
        /\ ping_field.mentions = SubSeq(Audience, 1, Min(Len(Audience), 10))

\* no handler is in flight
Quiet == \A t \in Tasks : tasks[t].pc \in {"idle", "ended"}

\* C38: however a successful submission and an un-verify command for the
\* same user interleave at their awaits, once both have finished the user
\* does not hold the verified role without having a record.
C38_NoRoleWithoutRecord ==
    Quiet =>
        \A u \in StoreMembers :
            "verified" \in roles[u] => u \in DOMAIN verification_data

\* C39: a submission that ends in Rejected:Blacklisted changes nothing
\* that is stored: the records, the blacklist, the failed-attempt
\* counters, the user profiles, the roles of the members and the data
\* files are the same after it as before.
C39_BlacklistedRejectionChangesNothing ==
    [][(SubmissionStep /\ outcome' = "Rejected:Blacklisted") =>
          UNCHANGED <<verification_data, blacklist, failed_attempts,
                      user_profiles, roles, files>>]_vars

\* a verified member with a profile, put on the blacklist since, was
\* rejected as blacklisted while a failed-attempt counter was stored
C39_Witness ==
    /\ pc = "Finished"
    /\ outcome = "Rejected:Blacklisted"
    /\ "verified" \in roles[sub.discord_id]
    /\ sub.discord_id \in DOMAIN user_profiles
    /\ failed_attempts # EmptyDict

TerminalOutcomes ==
    {"Done", "Rejected:NotAMember", "Rejected:Blacklisted",
     "Flagged:DuplicateHwid", "Flagged:Risk"}

\* the handler holds a submission
InFlight == sub # NoSub

\* C40: every received submission reaches a terminal outcome, and exactly
\* one: while the handler is on its way no outcome is set, it ends with
\* one of Done, Rejected:NotAMember, Rejected:Blacklisted,
\* Flagged:DuplicateHwid and Flagged:Risk, and it always ends, whether the
\* platform allows the role calls or refuses them.
C40_EverySubmissionTerminates ==
    /\ [](InFlight =>
             IF pc = "Finished" THEN outcome \in TerminalOutcomes
             ELSE outcome = "None")
    /\ [][(InFlight /\ pc = "Finished") =>
             (outcome' = outcome \/ ~InFlight')]_vars
    /\ (InFlight ~> (pc = "Finished" /\ outcome \in TerminalOutcomes))

\* a submission whose role call was refused has ended in Done
C40_Witness ==
    /\ InFlight
    /\ pc = "Finished"
    /\ outcome = "Done"
    /\ actuation = "failed"
    /\ reply.embed = "Permission Error"

====
